---- MODULE Spec2Model ----
(***************************************************************************)
(* Browser-automation agent orchestrator: the agent loop (Agent.run), the  *)
(* service relay (AgentService.run), the SSE gateway (event_generator) and *)
(* the session registry (SessionManager).                                  *)
(*                                                                         *)
(* The three async generators form a pull chain: the transport resumes the *)
(* gateway, the gateway resumes the service, the service resumes the agent.*)
(* asyncio runs them on one thread, so everything between two suspension   *)
(* points (a gateway yield to the transport, or an await on the LLM, the   *)
(* browser or a timer) is one atomic step.  A stop request can only        *)
(* interleave at those suspension points.                                  *)
(*                                                                         *)
(* Spec and SpecLong start from the iteration over agent.run               *)
(* (services/agent.py:96); the construction before it                      *)
(* (services/agent.py:70-93) is not part of these two specifications.      *)
(***************************************************************************)
EXTENDS Integers, Sequences, FiniteSets, TLC

\* ------------------------------------------------------------------------
\* Bounds
\* ------------------------------------------------------------------------
\* AgentConfig.max_steps used by the short runs that include stop requests.
MaxSteps == 2
\* AgentConfig.max_steps used by the long runs without stop requests.
MaxStepsLong == 6
\* AgentConfig.max_steps used by the runs of the click_text scenario.
MaxStepsSeed == 3
\* AgentConfig.max_steps used by the runs with a structured plan.
MaxStepsPlan == 2
\* message lists given to the text-protocol client: at most MaxBlocks runs of
\* messages of one role; a run has 1 or RunLen messages, a message has
\* SmallLen, MidLen or BigLen characters
MaxBlocks == 3
RunLen == 8
SmallLen == 10
MidLen == 19900
BigLen == 20000

\* histories given to the history-to-TestStep transform: at most MaxHistory steps
MaxHistory == 3

\* calls made on one AsyncBrowserAdapter
MaxOps == 4

\* calls each thread makes on the session manager
MaxCallsPerThread == 2

\* PoolConfig.max_sessions of the modelled pool
max_sessions == 1

\* PoolConfig.max_uses_per_session of the modelled pool
max_uses_per_session == 2

\* acquire calls each client task makes on the pool
MaxAcquires == 1

\* ------------------------------------------------------------------------
\* Program constants
\* ------------------------------------------------------------------------
max_messages == 12
StuckLimit == 5
RepeatLimit == 3
ShortLimit == 50

SessionIds == {"s1", "s2", "s3"}
None == "None"

\* ------------------------------------------------------------------------
\* Reply text.  A content is a sequence of tokens; each token stands for a
\* piece of text of a known length.  None / "" is the empty sequence.
\* ------------------------------------------------------------------------
TC == "TASK_COMPLETE"

TokLen(t) ==
    CASE t = "TASK_COMPLETE" -> 13
      [] t = "task_complete" -> 13
      [] t = " " -> 1
      [] t = "." -> 1
      [] t = "Found it." -> 9
      [] t = "FOUND IT." -> 9
      [] t = "I have verified the page and all is ok." -> 39
      [] t = "I HAVE VERIFIED THE PAGE AND ALL IS OK." -> 39
      [] OTHER -> 0

\* str.upper() on one token
UpperTok(t) ==
    CASE t = "task_complete" -> "TASK_COMPLETE"
      [] t = "Found it." -> "FOUND IT."
      [] t = "I have verified the page and all is ok." -> "I HAVE VERIFIED THE PAGE AND ALL IS OK."
      [] OTHER -> t

Upper(c) == [i \in DOMAIN c |-> UpperTok(c[i])]

RECURSIVE LStrip(_)
LStrip(c) == IF c # <<>> /\ Head(c) = " " THEN LStrip(Tail(c)) ELSE c

RECURSIVE RStrip(_)
RStrip(c) == IF c # <<>> /\ c[Len(c)] = " " THEN RStrip(SubSeq(c, 1, Len(c) - 1)) ELSE c

\* str.strip()
Strip(c) == RStrip(LStrip(c))

RECURSIVE CLen(_)
\* len(str)
CLen(c) == IF c = <<>> THEN 0 ELSE TokLen(Head(c)) + CLen(Tail(c))

\* "TASK_COMPLETE" in s
Mentions(c) == \E i \in DOMAIN c : c[i] = TC

\* s.startswith("TASK_COMPLETE")
StartsWithTC(c) == c # <<>> /\ c[1] = TC

Filler == "I have verified the page and all is ok."

C_none == <<>>
C_tc == <<TC>>
C_tc_lower == <<" ", "task_complete", " ">>
C_tc_short == <<TC, ".">>
C_tc_long == <<TC, " ", Filler>>
C_mixed == <<"Found it.", " ", TC>>
C_other == <<"Found it.">>

Contents == {C_none, C_tc, C_tc_lower, C_tc_short, C_tc_long, C_mixed, C_other}

\* ------------------------------------------------------------------------
\* Tool calls and LLM responses
\* ------------------------------------------------------------------------
Call(name, args) == [name |-> name, args |-> args]

NoArgs == [k \in {} |-> ""]
\* dict.get(k, d)
Get(args, k, d) == IF k \in DOMAIN args THEN args[k] ELSE d

K_click == Call("click", [selector |-> "#x"])
K_click_text == Call("click_text", [text |-> "Login"])
K_info == Call("get_page_info", NoArgs)
K_press == Call("press_key", [key |-> "Enter"])

Resp(content, calls) == [content |-> content, tool_calls |-> calls]

\* what the LLM stub may answer in the short runs
Responses ==
    {Resp(c, <<>>) : c \in Contents}
    \cup {Resp(C_none, <<k>>) : k \in {K_click, K_info}}
    \cup {Resp(C_none, <<K_click, K_click>>)}

\* what the LLM stub may answer in the long runs
LongResponses ==
    {Resp(C_other, <<>>), Resp(C_none, <<K_press>>), Resp(C_none, <<K_info>>)}

\* what the LLM stub may answer in the click_text scenario
SeedResponses ==
    {Resp(C_none, <<K_click_text>>), Resp(C_none, <<K_click>>), Resp(C_tc, <<>>)}

\* f"{tc.name}:{json.dumps(tc.arguments, sort_keys=True)}"
ToolKey(tc) == <<tc.name, tc.args>>

RECURSIVE Dedup(_, _)
\* tool calls of one response without repeated keys, first occurrence kept
Dedup(calls, seen) ==
    IF calls = <<>> THEN <<>>
    ELSE IF ToolKey(Head(calls)) \in seen THEN Dedup(Tail(calls), seen)
    ELSE <<Head(calls)>> \o Dedup(Tail(calls), seen \cup {ToolKey(Head(calls))})

actionable_tools == {"click", "fill", "submit", "press_key", "check", "select_option"}
ScreenshotTools == {"navigate", "click", "fill", "scroll", "click_text", "find_and_click"}

\* ------------------------------------------------------------------------
\* Messages, history, events
\* ------------------------------------------------------------------------
LLMMessage(role, text, ids) == [role |-> role, text |-> text, ids |-> ids]

AgentStep(n, tc, ok) ==
    [step_number |-> n, tool_name |-> tc.name, tool_args |-> tc.args,
     error |-> IF ok THEN None ELSE "error"]

\* an event of the agent generator
AEv(type, msg) == [type |-> type, msg |-> msg]
\* an event on the SSE stream; n is the serial of the agent event relayed (0: none)
Ev(type, msg, n) == [type |-> type, msg |-> msg, n |-> n]

IsTerminal(e) == e.type \in {"complete", "error"}

\* ------------------------------------------------------------------------
\* State
\* ------------------------------------------------------------------------
VARIABLES
    sessions,     \* SessionManager._sessions: id -> [is_running, stop_requested, stop_event]
    stop_ret,     \* return value of the last stop_session call
    sid,          \* session.session_id of the run
    gpc,          \* position of event_generator
    stream,       \* events yielded by event_generator to the transport
    spc,          \* position of AgentService.run
    llm_closed,   \* llm_client.close() has run
    config,       \* AgentConfig
    agent,        \* Agent: fields of self and locals of Agent.run
    produced,     \* number of events Agent.run has yielded
    obs,          \* observer: runs of identical calls / of no-tool replies
    request,      \* AgentRequest of the run, with the resolved API key
    px,           \* PerplexityClient: a chat call preparing its messages
    rt,           \* a chat call of an LLM client under with_retry
    ex,           \* ToolExecutor: a call of execute
    reg,          \* session ids handed out so far, and the latest registry call
    ts,           \* Agent._history_to_test_steps: a call and its result
    cg,           \* CodeGenService: a call of _step_to_typescript
    tp,           \* text-protocol parser: the reply and the parsed tool calls
    lr,           \* _parse_response of a client: the provider's data and the LLMResponse
    fc,           \* find_and_click: the page, the engine calls made and the result
    ba,           \* AsyncBrowserAdapter: executor, wrappers and the engine's log
    sm,           \* SessionManager under threads: _instance, the maps, each thread's position
    po,           \* the browser session pool and its tasks
    ck            \* the click tool: parameters, adapter call, calls on the page

sessVars == <<sessions, stop_ret, sid>>
gwVars == <<gpc, stream>>
svcVars == <<spc, llm_closed>>
agVars == <<config, agent, produced, obs>>
\* state of the components around the chain
compVars == <<request, px, rt, ex, reg, ts, cg, tp, lr, fc, ba, sm, po, ck>>
vars == <<sessions, stop_ret, sid, gpc, stream, spc, llm_closed,
          config, agent, produced, obs, compVars>>

\* AgentSession.should_stop() of the run's session
StopRequested == sid \in DOMAIN sessions /\ sessions[sid].stop_requested

\* ------------------------------------------------------------------------
\* Agent: pure parts
\* ------------------------------------------------------------------------
\* Agent._prune_messages
PruneMessages(msgs, maxm) ==
    IF Len(msgs) <= maxm + 1 THEN msgs
    ELSE LET system_msgs == SelectSeq(msgs, LAMBDA m : m.role = "system")
             other_msgs == SelectSeq(msgs, LAMBDA m : m.role # "system")
             kept_msgs == IF Len(other_msgs) <= maxm THEN other_msgs
                          ELSE SubSeq(other_msgs, Len(other_msgs) - maxm + 1, Len(other_msgs))
         IN system_msgs \o kept_msgs

\* is_task_complete that accepts any mention of the marker
IsTaskComplete_AnyMention(content) == Mentions(Upper(Strip(content)))

\* is_task_complete in Agent.run
IsTaskComplete(content) ==
    LET content_stripped == Upper(Strip(content))
    IN \/ content_stripped = <<TC>>
       \/ StartsWithTC(content_stripped) /\ CLen(content_stripped) < ShortLimit

\* has_actionable_steps in Agent.run
HasActionableSteps(history) ==
    \E i \in DOMAIN history :
        history[i].tool_name \in actionable_tools /\ history[i].error = None

\* str.lower() for the strings used in plans and arguments
Lower(s) ==
    CASE s = "Login" -> "login"
      [] s = "Laptop" -> "laptop"
      [] s = "Click" -> "click"
      [] OTHER -> s

\* a in b (substring) for the strings used in plans and arguments
StrIn(a, b) ==
    \/ a = ""
    \/ a = b
    \/ <<a, b>> \in {<<"login", "login button">>, <<"laptop", "laptop bag">>}

TaskStep(number, action, target, value) ==
    [number |-> number, action |-> action, target |-> target, value |-> value,
     completed |-> FALSE]

action_to_tools(action) ==
    CASE action = "click" -> {"click", "click_text", "click_nth", "find_and_click"}
      [] action = "fill" -> {"fill", "type_text"}
      [] action = "type" -> {"fill", "type_text"}
      [] action = "scroll" -> {"scroll", "scroll_to_element"}
      [] action = "wait" -> {"wait", "wait_for_element"}
      [] action = "navigate" -> {"navigate"}
      [] action = "press" -> {"press_key"}
      [] action = "hover" -> {"hover"}
      [] action = "select" -> {"select_option"}
      [] action = "check" -> {"check"}
      [] action = "uncheck" -> {"uncheck"}
      [] OTHER -> {action}

\* a line "STEP n: p1 - p2 - p3" of a decomposition, split at " - "
StepLine(num, parts) == [kind |-> "step", num |-> num, parts |-> parts]
\* a line "DONE: ..." and a line of anything else
DoneLine == [kind |-> "done", num |-> 0, parts |-> <<>>]
TextLine == [kind |-> "text", num |-> 0, parts |-> <<>>]

\* str.strip('"\'') on the values used in plans
StripQuotes(v) ==
    CASE v = "\"laptop\"" -> "laptop"
      [] v = "'laptop'" -> "laptop"
      [] OTHER -> v

RECURSIVE parse_task_steps(_)
\* agent.py:61-101
parse_task_steps(lines) ==
    IF lines = <<>> THEN <<>>
    ELSE LET line == Head(lines)
         IN IF line.kind = "step" /\ Len(line.parts) >= 2
            THEN <<TaskStep(line.num, Lower(line.parts[1]), line.parts[2],
                            IF Len(line.parts) > 2 THEN StripQuotes(line.parts[3]) ELSE None)>>
                     \o parse_task_steps(Tail(lines))
            ELSE parse_task_steps(Tail(lines))

\* what the LLM may answer to the decomposition prompt
Decompositions ==
    {<<StepLine(1, <<"fill", "#q", "\"laptop\"">>), StepLine(2, <<"Click", "[type=submit]">>),
       DoneLine>>,
     <<StepLine(1, <<"click", "login button">>), DoneLine>>,
     <<TextLine, StepLine(1, <<"click", "cart">>)>>,
     <<StepLine(1, <<"fill">>), TextLine>>,
     <<>>}

K_fill == Call("fill", [selector |-> "#q", value |-> "laptop"])
K_fill_phone == Call("fill", [selector |-> "#q", value |-> "phone"])
K_submit == Call("click", [selector |-> "[type=submit]"])

\* what the LLM stub may answer in the runs with a plan
PlanResponses ==
    {Resp(C_none, <<k>>) : k \in {K_fill, K_fill_phone, K_submit, K_click_text, K_info}}
    \cup {Resp(C_none, <<K_fill, K_submit>>)}

\* _tool_matches_step that compares the tool name only
ToolMatchesStep_NameOnly(tool_name, tool_args, step) ==
    tool_name \in action_to_tools(Lower(step.action))
\* Agent._tool_matches_step
ToolMatchesStep(tool_name, tool_args, step) ==
    LET action == Lower(step.action)
        tool_value == IF Get(tool_args, "value", "") # "" THEN Get(tool_args, "value", "")
                      ELSE Get(tool_args, "text", "")
        tool_text == Get(tool_args, "text", "")
    IN /\ tool_name \in action_to_tools(action)
       /\ ~ (/\ action \in {"fill", "type"}
             /\ step.value \notin {None, ""}
             /\ ~ StrIn(Lower(step.value), Lower(tool_value))
             /\ ~ StrIn(Lower(tool_value), Lower(step.value)))
       /\ ~ (/\ tool_name = "click_text"
             /\ step.target # ""
             /\ ~ StrIn(Lower(step.target), Lower(tool_text))
             /\ ~ StrIn(Lower(tool_text), Lower(step.target)))

\* ------------------------------------------------------------------------
\* Agent.run as a generator: a segment runs from one suspension point to the
\* next and gives the new agent state and what the generator does there:
\* yield an event, await something, return, or raise.
\* ------------------------------------------------------------------------
NoKey == <<>>
NoEvent == AEv("none", "")

Y(a, pc, ev) == [a |-> [a EXCEPT !.pc = pc], o |-> [kind |-> "yield", ev |-> ev]]
W(a, pc) == [a |-> [a EXCEPT !.pc = pc], o |-> [kind |-> "await", ev |-> NoEvent]]
Returned(a) == [a |-> [a EXCEPT !.pc = "done"], o |-> [kind |-> "return", ev |-> NoEvent]]
Raised(a) == [a |-> [a EXCEPT !.pc = "raised"], o |-> [kind |-> "raise", ev |-> NoEvent]]

Log(msg) == AEv("log", msg)

\* pcs at which Agent.run is suspended in a yield inside its try block
TryYields ==
    {"y_launched", "y_nav", "y_loaded", "y_shot0", "y_decomp", "y_plan1", "y_plan2",
     "y_noplan", "y_enh", "y_boost", "y_step", "y_llmerr", "y_agent", "y_repeat",
     "y_tool", "y_exec", "y_ok", "y_stepdone", "y_shot", "y_shotfail", "y_fail",
     "y_stuck", "y_marked", "y_tried", "y_rejected", "y_code", "y_complete",
     "y_agenterr"}
\* all pcs at which Agent.run is suspended in a yield
YieldPcs == TryYields \cup {"y_start", "y_url", "y_closed"}
SetupYields == {"y_start", "y_url", "y_launched", "y_nav", "y_loaded", "y_shot0",
                "y_decomp", "y_plan1", "y_plan2", "y_noplan", "y_enh", "y_boost"}
FinishYields == {"y_code", "y_complete", "y_agenterr", "y_closed"}
LoopYields == YieldPcs \ (SetupYields \cup FinishYields)

\* agent.py:688-690  code generation and the code event
Codegen(a) == Y(a, "y_code", AEv("code", ""))

\* agent.py:692-698  final status
FinalStatus(a) ==
    Y(a, "y_complete",
      AEv("complete",
          IF a.task_complete THEN "Task completed successfully"
          ELSE IF a.step_count >= config.max_steps THEN "Reached maximum steps"
          ELSE "Agent stopped"))

\* agent.py:484-486  loop condition and the step log
\* (the locals response and result are dead here and are cleared)
WhileTop(a) ==
    LET a0 == [a EXCEPT !.response = Resp(<<>>, <<>>), !.result_ok = FALSE]
    IN IF a0.step_count < config.max_steps /\ ~ a0.task_complete
       THEN Y([a0 EXCEPT !.step_count = @ + 1], "y_step", Log("--- Step"))
       ELSE Codegen(a0)

\* agent.py:469-482  conversation start
LoopEntry(a) ==
    WhileTop([a EXCEPT !.messages = <<LLMMessage("system", "prompt", {}),
                                      LLMMessage("user", "task", {})>>,
                       !.step_count = 0,
                       !.task_complete = FALSE])

\* agent.py:455-461  optional boost
Boost(a) ==
    IF config.use_boost_prompt /\ a.task_steps = <<>>
    THEN Y(a, "y_enh", Log("Enhancing task"))
    ELSE LoopEntry(a)

\* agent.py:427-430  optional decomposition
Prepare(a) ==
    IF config.use_structured_execution
    THEN Y(a, "y_decomp", Log("Decomposing task"))
    ELSE Boost(a)

\* agent.py:542-551  start of one tool call
StartTool(a) == Y(a, "y_tool", AEv("tool", Head(a.calls).name))

\* a tool loop that is left at the first failed call
Record_FailBreaks(a, ok) ==
    LET tc == Head(a.calls)
        a1 == [a EXCEPT
                 !.history = Append(@, AgentStep(a.step_count, tc, ok)),
                 !.messages = PruneMessages(
                                 Append(@, LLMMessage("tool", "result", {tc.id})),
                                 max_messages),
                 !.calls = Tail(@)]
    IN IF a1.calls # <<>> /\ ok THEN StartTool(a1) ELSE W(a1, "w_sleep")
\* agent.py:610-621 and the end of the turn (686)
Record(a, ok) ==
    LET tc == Head(a.calls)
        a1 == [a EXCEPT
                 !.history = Append(@, AgentStep(a.step_count, tc, ok)),
                 !.messages = PruneMessages(
                                 Append(@, LLMMessage("tool", "result", {tc.id})),
                                 max_messages),
                 !.calls = Tail(@)]
    IN IF a1.calls # <<>> THEN StartTool(a1) ELSE W(a1, "w_sleep")

\* agent.py:594-597  screenshot after DOM-changing tools
Shot(a) ==
    IF Head(a.calls).name \in ScreenshotTools THEN W(a, "w_shot") ELSE Record(a, TRUE)

\* step matching that advances the cursor without marking the step
MatchStep_Unmarked(a) ==
    IF a.task_steps # <<>> /\ a.current_step_index < Len(a.task_steps)
    THEN LET current_step == a.task_steps[a.current_step_index + 1]
             tc == Head(a.calls)
         IN IF ToolMatchesStep(tc.name, tc.args, current_step)
            THEN Y([a EXCEPT !.current_step_index = @ + 1],
                   "y_stepdone", Log("Step completed"))
            ELSE Shot(a)
    ELSE Shot(a)

\* agent.py:574-585  structured step matching
MatchStep(a) ==
    IF a.task_steps # <<>> /\ a.current_step_index < Len(a.task_steps)
    THEN LET current_step == a.task_steps[a.current_step_index + 1]
             tc == Head(a.calls)
         IN IF ToolMatchesStep(tc.name, tc.args, current_step)
            THEN Y([a EXCEPT !.task_steps[a.current_step_index + 1].completed = TRUE,
                             !.current_step_index = @ + 1],
                   "y_stepdone", Log("Step completed"))
            ELSE Shot(a)
    ELSE Shot(a)

\* agent.py:586-592  progress message
Progress(a) ==
    LET remaining == Len(a.task_steps) - a.current_step_index
    IN IF remaining > 0
       THEN Shot([a EXCEPT !.messages = Append(@, LLMMessage("user", "progress", {}))])
       ELSE Shot(a)

\* agent.py:677-686
Ask(a) ==
    LET c == a.response.content
    IN IF ~ a.task_complete /\ (c = <<>> \/ ~ Mentions(Upper(c)))
       THEN W([a EXCEPT !.messages = Append(@, LLMMessage("user", "continue", {}))], "w_sleep")
       ELSE W(a, "w_sleep")

\* agent.py:622-675  a reply without tool calls
NoTool(a) ==
    LET c == a.response.content
        a1 == [a EXCEPT !.stuck_count = @ + 1, !.last_tool_key = NoKey]
        a2 == [a1 EXCEPT !.messages = Append(@, LLMMessage("assistant", "text", {}))]
    IN IF a1.stuck_count >= StuckLimit
       THEN Y(a1, "y_stuck", AEv("error", "stuck"))
       ELSE IF c # <<>>
            THEN IF IsTaskComplete(c)
                 THEN IF HasActionableSteps(a2.history)
                      THEN Y([a2 EXCEPT !.task_complete = TRUE], "y_marked", Log("marked complete"))
                      ELSE Y(a2, "y_tried", Log("no actionable steps"))
                 ELSE IF Mentions(Upper(Strip(c)))
                      THEN Y(a2, "y_rejected", Log("completion rejected"))
                      ELSE Ask(a2)
            ELSE Ask(a2)

\* agent.py:504-540  a reply with tool calls
WithTools(a) ==
    LET unique_tool_calls == Dedup(a.response.tool_calls, {})
        a0 == [a EXCEPT !.stuck_count = 0]
        current_key == ToolKey(unique_tool_calls[1])
        a1 == IF Len(unique_tool_calls) = 1
              THEN IF current_key = a0.last_tool_key
                   THEN [a0 EXCEPT !.stuck_count = @ + 1, !.last_tool_key = current_key]
                   ELSE [a0 EXCEPT !.stuck_count = 0, !.last_tool_key = current_key]
              ELSE a0
        a2 == [a1 EXCEPT
                 !.messages = Append(@, LLMMessage("assistant", "calls",
                                  {unique_tool_calls[i].id : i \in DOMAIN unique_tool_calls})),
                 !.calls = unique_tool_calls]
    IN IF /\ Len(unique_tool_calls) = 1
          /\ current_key = a0.last_tool_key
          /\ a0.stuck_count + 1 >= RepeatLimit
       THEN Y([a0 EXCEPT !.stuck_count = @ + 1], "y_repeat", Log("repeating same action"))
       ELSE StartTool(a2)

\* agent.py:524-530  corrective message, reset, continue
Recover(a) ==
    WhileTop([a EXCEPT !.messages = Append(@, LLMMessage("user", "repeat", {})),
                       !.stuck_count = 0,
                       !.last_tool_key = NoKey])

\* agent.py:503-504, 622
Process(a) == IF a.response.tool_calls # <<>> THEN WithTools(a) ELSE NoTool(a)

\* Resumption of Agent.run after a yield
Resume(a) ==
    CASE a.pc = "y_start" -> Y(a, "y_url", Log("Target URL"))
      [] a.pc = "y_url" -> W([a EXCEPT !.browser = "new"], "w_launch")
      [] a.pc = "y_launched" -> Y(a, "y_nav", Log("Navigating"))
      [] a.pc = "y_nav" -> W(a, "w_goto")
      [] a.pc = "y_loaded" -> W(a, "w_shot0")
      [] a.pc = "y_shot0" -> Prepare(a)
      [] a.pc = "y_decomp" -> W(a, "w_decomp")
      [] a.pc = "y_plan1" -> Y(a, "y_plan2", Log("Completion criteria"))
      [] a.pc = "y_plan2" -> LoopEntry(a)
      [] a.pc = "y_noplan" -> Boost(a)
      [] a.pc = "y_enh" -> W(a, "w_boost")
      [] a.pc = "y_boost" -> LoopEntry(a)
      [] a.pc = "y_step" -> W(a, "w_chat")
      [] a.pc = "y_llmerr" -> Codegen([a EXCEPT !.response = Resp(<<>>, <<>>)])
      [] a.pc = "y_agent" -> Process(a)
      [] a.pc = "y_repeat" -> Recover(a)
      [] a.pc = "y_tool" -> Y(a, "y_exec", Log("Executing"))
      [] a.pc = "y_exec" -> W(a, "w_exec")
      [] a.pc = "y_ok" -> MatchStep(a)
      [] a.pc = "y_stepdone" -> Progress(a)
      [] a.pc = "y_shot" -> Record(a, TRUE)
      [] a.pc = "y_shotfail" -> Record(a, TRUE)
      [] a.pc = "y_fail" -> Record(a, FALSE)
      [] a.pc = "y_stuck" -> Codegen([a EXCEPT !.response = Resp(<<>>, <<>>)])
      [] a.pc = "y_marked" -> Ask(a)
      [] a.pc = "y_tried" ->
            Ask([a EXCEPT !.messages = Append(@, LLMMessage("user", "not done", {}))])
      [] a.pc = "y_rejected" ->
            Ask([a EXCEPT !.messages = Append(@, LLMMessage("user", "reformat", {}))])
      [] a.pc = "y_code" -> FinalStatus(a)
      [] a.pc = "y_complete" -> W(a, "w_close")
      [] a.pc = "y_agenterr" -> W(a, "w_close")
      [] a.pc = "y_closed" -> Returned(a)

\* ------------------------------------------------------------------------
\* Session registry
\* ------------------------------------------------------------------------
\* AgentSession.__init__
AgentSession == [is_running |-> TRUE, stop_requested |-> FALSE, stop_event |-> FALSE]

\* uuid.uuid4(): an id no session has
NewSessionId == CHOOSE id \in SessionIds : id \notin DOMAIN sessions

\* SessionManager.create_session
CreateSession(id) ==
    [i \in DOMAIN sessions \cup {id} |-> IF i = id THEN AgentSession ELSE sessions[i]]

\* mark_completed that puts a new session object in place of the old one
MarkCompleted_Renewed(id) ==
    [i \in DOMAIN sessions |-> IF i = id THEN [AgentSession EXCEPT !.is_running = FALSE]
                                        ELSE sessions[i]]
\* AgentSession.mark_completed
MarkCompleted(id) ==
    [i \in DOMAIN sessions |-> IF i = id THEN [sessions[i] EXCEPT !.is_running = FALSE]
                                        ELSE sessions[i]]

\* remove_session that leaves the registry as it is
RemoveSession_Kept(id) == sessions

\* SessionManager.remove_session
RemoveSession(id) == [i \in DOMAIN sessions \ {id} |-> sessions[i]]

\* AgentSession.request_stop
RequestStop(session) == [session EXCEPT !.stop_requested = TRUE, !.stop_event = TRUE]

\* stop_session that does not look at is_running
StopCall_Completed(id) ==
    IF id \in DOMAIN sessions
    THEN /\ sessions' = [sessions EXCEPT ![id] = RequestStop(@)]
         /\ stop_ret' = "True"
    ELSE /\ sessions' = sessions
         /\ stop_ret' = "False"
\* SessionManager.stop_session
StopCall(id) ==
    IF id \in DOMAIN sessions /\ sessions[id].is_running
    THEN /\ sessions' = [sessions EXCEPT ![id] = RequestStop(@)]
         /\ stop_ret' = "True"
    ELSE /\ sessions' = sessions
         /\ stop_ret' = "False"

\* stop_agent (routes.py:156-170) during a run
StopSession(id) ==
    /\ StopCall(id)
    /\ UNCHANGED <<sid, gwVars, svcVars, agVars, compVars>>

\* stop_agent: the status of the HTTP response
StopStatus(ret) == IF ret = "True" THEN 200 ELSE 404

\* SessionManager.stop_all_sessions
StopAllSessions ==
    [i \in DOMAIN sessions |->
        IF sessions[i].is_running THEN RequestStop(sessions[i]) ELSE sessions[i]]

RECURSIVE CountRunning(_)
\* session.py:82-86  count += 1 for each running session
CountRunning(ids) ==
    IF ids = {} THEN 0
    ELSE LET i == CHOOSE j \in ids : TRUE
         IN (IF sessions[i].is_running THEN 1 ELSE 0) + CountRunning(ids \ {i})

\* a count of all sessions of the registry
StopAllCount_All == Cardinality(DOMAIN sessions)
\* the value stop_all_sessions returns
StopAllCount == CountRunning(DOMAIN sessions)

\* SessionManager.get_active_sessions
get_active_sessions == {i \in DOMAIN sessions : sessions[i].is_running}

\* SessionManager.cleanup_completed
CleanupCompleted == [i \in get_active_sessions |-> sessions[i]]

\* ------------------------------------------------------------------------
\* Relay of what the agent generator does through AgentService.run
\* (services/agent.py:95-122) and event_generator (routes.py:45-78)
\* ------------------------------------------------------------------------
\* AgentService._convert_event
ConvertEvent(ev, n) ==
    CASE ev.type = "tool" -> Ev("log", "Tool", n)
      [] ev.type = "boosted_prompt" -> Ev("log", "Enhanced Task Plan", n)
      [] OTHER -> Ev(ev.type, ev.msg, n)

StopEvent == Ev("complete", "Agent stopped by user", 0)

\* a finally block that sleeps without marking the session completed
GwFinally_Running == /\ sessions' = sessions
                     /\ gpc' = "sleep"
\* event_generator leaves its loop: finally, up to the sleep (routes.py:74-77)
GwFinally == /\ sessions' = MarkCompleted(sid)
             /\ gpc' = "sleep"

Relay(o) ==
    CASE o.kind = "yield" ->
            /\ produced' = produced + 1
            /\ IF StopRequested
               THEN \* service: stop log and break; gateway: stop event and break
                    /\ spc' = "stoplog"
                    /\ stream' = Append(stream, StopEvent)
                    /\ gpc' = "sent_stop"
               ELSE /\ spc' = "relay"
                    /\ stream' = Append(stream, ConvertEvent(o.ev, produced + 1))
                    /\ gpc' = "sent"
            /\ UNCHANGED <<sessions, llm_closed>>
      [] o.kind = "await" ->
            /\ gpc' = "waiting"
            /\ spc' = "relay"
            /\ UNCHANGED <<sessions, llm_closed, stream, produced>>
      [] o.kind = "return" ->
            \* service: loop ends, finally closes the client; gateway: loop ends
            /\ spc' = "done"
            /\ llm_closed' = TRUE
            /\ GwFinally
            /\ UNCHANGED <<stream, produced>>
      [] o.kind = "raise" ->
            \* service: except, error event; gateway: relays it unless stopped
            /\ spc' = "errorsent"
            /\ IF StopRequested
               THEN /\ stream' = Append(stream, StopEvent)
                    /\ gpc' = "sent_stop"
               ELSE /\ stream' = Append(stream, Ev("error", "Agent execution error", 0))
                    /\ gpc' = "sent"
            /\ UNCHANGED <<sessions, llm_closed, produced>>

\* the agent generator runs segment s; the chain relays its outcome
Run(s) ==
    /\ agent' = s.a
    /\ Relay(s.o)
    /\ UNCHANGED <<stop_ret, sid, config, compVars>>

\* ------------------------------------------------------------------------
\* PerplexityClient: preparation of the messages of a chat call
\* (llm/perplexity.py).  A content is represented by its length in
\* characters; concatenation adds lengths.
\* ------------------------------------------------------------------------
MAX_INPUT_TOKENS == 80000
CHARS_PER_TOKEN == 4
MAX_TOOL_RESULT_CHARS == 15000
MAX_CONTENT_CHARS == 20000
\* len("\n... [truncated due to length]")
TruncMarkLen == 30
\* len("Tool 'click': ")
ToolPrefixLen == 14
\* len("Using tools:\n")
UsingToolsLen == 13
\* len('TOOL_CALL: click\nARGUMENTS: {"selector": "#x"}\n')
ToolCallLineLen == 47
\* len(_format_tools_prompt([{"name": "click"}]))
ToolsPromptLen == 988
\* lengths of the placeholder contents of _enforce_alternation
ContinueTaskLen == 23
AcknowledgedLen == 23
UnderstoodLen == 11
PleaseContinueLen == 37
\* _truncate_conversation: buffer, size of a "very large" message, margin
TruncBuffer == 5000
VeryLargeTokens == 10000
TruncMargin == 1000

\* an LLMMessage given to chat: role, len(content), number of tool calls
PxIn(role, len, calls) == [role |-> role, len |-> len, tool_calls |-> calls]
\* a converted message: {"role": ..., "content": ...}
PxMsg(role, len) == [role |-> role, len |-> len]

estimate_tokens(len) == len \div CHARS_PER_TOKEN

truncate_to_tokens(len, max_tokens) ==
    LET max_chars == max_tokens * CHARS_PER_TOKEN
    IN IF len <= max_chars THEN len ELSE max_chars + TruncMarkLen

RECURSIVE SumLen(_)
\* sum(len(m["content"]) for m in msgs)
SumLen(msgs) == IF msgs = <<>> THEN 0 ELSE Head(msgs).len + SumLen(Tail(msgs))

RECURSIVE SumTokens(_)
\* sum(estimate_tokens(m["content"]) for m in msgs)
SumTokens(msgs) ==
    IF msgs = <<>> THEN 0 ELSE estimate_tokens(Head(msgs).len) + SumTokens(Tail(msgs))

RECURSIVE JoinLen(_)
\* len("\n\n".join(parts)) for the lengths of the parts
JoinLen(parts) ==
    IF parts = <<>> THEN 0
    ELSE IF Len(parts) = 1 THEN parts[1]
    ELSE parts[1] + 2 + JoinLen(Tail(parts))

RECURSIVE ConvertLoop(_, _, _)
\* perplexity.py:156-217  first pass of _convert_messages
ConvertLoop(msgs, converted, pending_tool_results) ==
    LET flushed == IF pending_tool_results # <<>>
                   THEN Append(converted, PxMsg("user", JoinLen(pending_tool_results)))
                   ELSE converted
    IN IF msgs = <<>> THEN flushed
       ELSE LET msg == Head(msgs)
                content == IF msg.len > MAX_CONTENT_CHARS
                           THEN truncate_to_tokens(msg.len, MAX_CONTENT_CHARS \div CHARS_PER_TOKEN)
                           ELSE msg.len
                tool_content == IF msg.len > MAX_TOOL_RESULT_CHARS
                                THEN truncate_to_tokens(msg.len, MAX_TOOL_RESULT_CHARS \div CHARS_PER_TOKEN)
                                ELSE msg.len
                tool_text == content + (IF content > 0 THEN 2 ELSE 0) + UsingToolsLen
                                 + msg.tool_calls * ToolCallLineLen
            IN CASE msg.role = "system" ->
                      ConvertLoop(Tail(msgs), Append(converted, PxMsg("system", content)),
                                  pending_tool_results)
                 [] msg.role = "tool" ->
                      ConvertLoop(Tail(msgs), converted,
                                  Append(pending_tool_results, ToolPrefixLen + tool_content))
                 [] msg.role = "assistant" ->
                      ConvertLoop(Tail(msgs),
                                  Append(flushed, PxMsg("assistant",
                                      IF msg.tool_calls > 0 THEN tool_text ELSE content)),
                                  <<>>)
                 [] msg.role = "user" ->
                      IF pending_tool_results # <<>>
                      THEN ConvertLoop(Tail(msgs),
                               Append(converted,
                                      PxMsg("user", JoinLen(pending_tool_results) + 2 + content)),
                               <<>>)
                      ELSE ConvertLoop(Tail(msgs), Append(converted, PxMsg("user", content)),
                                       pending_tool_results)
                 [] OTHER -> ConvertLoop(Tail(msgs), converted, pending_tool_results)

RECURSIVE MergeLoop(_, _)
\* perplexity.py:219-226  merge consecutive messages of one role
MergeLoop(converted, final) ==
    IF converted = <<>> THEN final
    ELSE LET msg == Head(converted)
         IN IF final # <<>> /\ final[Len(final)].role = msg.role /\ msg.role # "system"
            THEN MergeLoop(Tail(converted),
                           [final EXCEPT ![Len(final)].len = @ + 2 + msg.len])
            ELSE MergeLoop(Tail(converted), Append(final, msg))

OtherRole(role) == IF role = "user" THEN "assistant" ELSE "user"

RECURSIVE EnforceLoop(_, _, _)
\* perplexity.py:268-291  the loop of _enforce_alternation
EnforceLoop(conv_msgs, result, expected_role) ==
    IF conv_msgs = <<>> THEN result
    ELSE LET msg == Head(conv_msgs)
             rest == Tail(conv_msgs)
         IN IF msg.role = expected_role
            THEN EnforceLoop(rest, Append(result, msg), OtherRole(expected_role))
            ELSE IF result # <<>> /\ result[Len(result)].role = msg.role
            THEN EnforceLoop(rest, [result EXCEPT ![Len(result)].len = @ + 2 + msg.len],
                             expected_role)
            ELSE IF result = <<>>
            THEN IF msg.role = "assistant"
                 THEN EnforceLoop(rest, <<PxMsg("user", ContinueTaskLen), msg>>, "user")
                 ELSE EnforceLoop(rest, result, expected_role)
            ELSE LET placed ==
                        IF expected_role = "user" /\ msg.role = "assistant"
                        THEN Append(result, PxMsg("user", AcknowledgedLen))
                        ELSE IF expected_role = "assistant" /\ msg.role = "user"
                        THEN Append(result, PxMsg("assistant", UnderstoodLen))
                        ELSE result
                 IN EnforceLoop(rest, Append(placed, msg), OtherRole(msg.role))

\* PerplexityClient._enforce_alternation
enforce_alternation(messages) ==
    LET system_msgs == SelectSeq(messages, LAMBDA m : m.role = "system")
        conv_msgs == SelectSeq(messages, LAMBDA m : m.role # "system")
        result == EnforceLoop(conv_msgs, <<>>, "user")
    IN IF messages = <<>> THEN messages
       ELSE IF conv_msgs = <<>> THEN system_msgs
       ELSE IF result # <<>> /\ result[Len(result)].role = "assistant"
       THEN system_msgs \o Append(result, PxMsg("user", PleaseContinueLen))
       ELSE system_msgs \o result

RECURSIVE KeepLoop(_, _, _, _)
\* perplexity.py:316-330  keep messages from the end while they fit
KeepLoop(conv_msgs, kept_msgs, current_tokens, available_tokens) ==
    IF conv_msgs = <<>> THEN kept_msgs
    ELSE LET msg == conv_msgs[Len(conv_msgs)]
             msg_tokens == estimate_tokens(msg.len)
         IN IF current_tokens + msg_tokens <= available_tokens
            THEN KeepLoop(SubSeq(conv_msgs, 1, Len(conv_msgs) - 1), <<msg>> \o kept_msgs,
                          current_tokens + msg_tokens, available_tokens)
            ELSE IF msg_tokens > VeryLargeTokens /\ kept_msgs = <<>>
            THEN <<PxMsg(msg.role, truncate_to_tokens(msg.len, available_tokens - TruncMargin))>>
            ELSE kept_msgs

\* PerplexityClient._truncate_conversation
truncate_conversation(messages, max_tokens) ==
    LET system_msgs == SelectSeq(messages, LAMBDA m : m.role = "system")
        conv_msgs == SelectSeq(messages, LAMBDA m : m.role # "system")
        available_tokens == max_tokens - SumTokens(system_msgs) - TruncBuffer
    IN IF messages = <<>> THEN messages
       ELSE system_msgs \o KeepLoop(conv_msgs, <<>>, 0, available_tokens)

\* PerplexityClient._inject_tools_prompt
inject_tools_prompt(messages, tool_prompt) ==
    IF \E i \in DOMAIN messages : messages[i].role = "system"
    THEN [i \in DOMAIN messages |->
             IF messages[i].role = "system"
             THEN PxMsg("system", messages[i].len + 2 + tool_prompt)
             ELSE messages[i]]
    ELSE <<PxMsg("system", tool_prompt)>> \o messages

\* no chat call under way
PxIdle == [pc |-> "idle", messages |-> <<>>, tools |-> FALSE, out |-> <<>>]

\* a run of messages of one role
Block(role, count, len, calls) == [i \in 1..count |-> PxIn(role, len, calls)]
Blocks ==
    {Block(r, 1, SmallLen, 0) : r \in {"user", "assistant", "tool"}}
    \cup {Block(r, RunLen, n, 0) : r \in {"user", "assistant", "tool"}, n \in {MidLen, BigLen}}
    \cup {Block("assistant", 1, SmallLen, 1), Block("user", 1, BigLen, 0)}

RECURSIVE Flatten(_)
Flatten(bs) == IF bs = <<>> THEN <<>> ELSE Head(bs) \o Flatten(Tail(bs))

\* the message lists chat is called with
PxInputs ==
    {sys \o Flatten(bs) :
        sys \in {<<>>, <<PxIn("system", SmallLen, 0)>>},
        bs \in UNION {[1..n -> Blocks] : n \in 0..MaxBlocks}}

\* perplexity.py:156-217
PxConvert ==
    /\ px.pc = "called"
    /\ px' = [px EXCEPT !.pc = "converted", !.out = ConvertLoop(px.messages, <<>>, <<>>)]
    /\ UNCHANGED <<sessVars, gwVars, svcVars, agVars, request, rt, ex, reg, ts, cg, tp, lr, fc, ba, sm, po, ck>>

\* perplexity.py:219-226
PxMerge ==
    /\ px.pc = "converted"
    /\ px' = [px EXCEPT !.pc = "merged", !.out = MergeLoop(px.out, <<>>)]
    /\ UNCHANGED <<sessVars, gwVars, svcVars, agVars, request, rt, ex, reg, ts, cg, tp, lr, fc, ba, sm, po, ck>>

\* perplexity.py:228-230
PxEnforce ==
    /\ px.pc = "merged"
    /\ px' = [px EXCEPT !.pc = "enforced", !.out = enforce_alternation(px.out)]
    /\ UNCHANGED <<sessVars, gwVars, svcVars, agVars, request, rt, ex, reg, ts, cg, tp, lr, fc, ba, sm, po, ck>>

\* perplexity.py:232-238
PxTruncate ==
    /\ px.pc = "enforced"
    /\ px' = [px EXCEPT !.pc = "final",
                        !.out = IF SumLen(px.out) > MAX_INPUT_TOKENS * CHARS_PER_TOKEN
                                THEN truncate_conversation(px.out, MAX_INPUT_TOKENS)
                                ELSE px.out]
    /\ UNCHANGED <<sessVars, gwVars, svcVars, agVars, request, rt, ex, reg, ts, cg, tp, lr, fc, ba, sm, po, ck>>

\* perplexity.py:88-95  tools prompt, then the request is posted
PxPost ==
    /\ px.pc = "final"
    /\ px' = [px EXCEPT !.pc = "posted",
                        !.out = IF px.tools THEN inject_tools_prompt(px.out, ToolsPromptLen)
                                ELSE px.out]
    /\ UNCHANGED <<sessVars, gwVars, svcVars, agVars, request, rt, ex, reg, ts, cg, tp, lr, fc, ba, sm, po, ck>>

\* ------------------------------------------------------------------------
\* with_retry around the chat method of the three clients (llm/retry.py,
\* llm/gemini.py, llm/perplexity.py, llm/huggingface.py)
\* ------------------------------------------------------------------------
\* @with_retry(max_attempts=3, ...) on each chat method
max_attempts == 3

\* what one POST can come to: an HTTP status, or no response at all
Outcomes == {"200", "400", "401", "403", "404", "429", "500", "503",
             "timeout", "connect"}

RETRYABLE_EXCEPTIONS ==
    {"TimeoutException", "NetworkError", "ConnectError", "ReadTimeout", "HTTPStatusError"}

\* the statuses a client turns into ValueError before raise_for_status
ValueErrorStatus(provider) ==
    CASE provider = "gemini" -> {"400", "401", "403"}
      [] provider = "perplexity" -> {"400", "401", "403", "429"}
      [] provider = "hf" -> {"400", "401", "403", "404", "429", "503"}

\* one run of the body of chat: "return" or the exception raised
ChatOnce(provider, outcome) ==
    CASE outcome = "timeout" -> "TimeoutException"
      [] outcome = "connect" -> "ConnectError"
      [] outcome \in ValueErrorStatus(provider) -> "ValueError"
      [] outcome = "200" -> "return"
      [] OTHER -> "HTTPStatusError"

RtIdle == [pc |-> "idle", provider |-> None, requests |-> <<>>, error |-> None]

\* retry.py:47-56  one attempt and the decision that follows it
RtRequest(outcome) ==
    /\ rt.pc = "calling"
    /\ LET r == ChatOnce(rt.provider, outcome)
           n == Len(rt.requests) + 1
       IN rt' = [rt EXCEPT
                   !.requests = Append(@, outcome),
                   !.pc = IF r = "return" THEN "returned"
                          ELSE IF r \in RETRYABLE_EXCEPTIONS /\ n < max_attempts
                          THEN "waiting"
                          ELSE "raised",
                   !.error = IF r = "return" THEN None ELSE r]
    /\ UNCHANGED <<sessVars, gwVars, svcVars, agVars, request, px, ex, reg, ts, cg, tp, lr, fc, ba, sm, po, ck>>

\* retry.py:50  wait_exponential has elapsed
RtWake ==
    /\ rt.pc = "waiting"
    /\ rt' = [rt EXCEPT !.pc = "calling"]
    /\ UNCHANGED <<sessVars, gwVars, svcVars, agVars, request, px, ex, reg, ts, cg, tp, lr, fc, ba, sm, po, ck>>

\* ------------------------------------------------------------------------
\* ToolExecutor.execute (tools/executor.py)
\* ------------------------------------------------------------------------
\* some of the keys of self._tool_handlers
tool_handlers == {"click", "fill", "press_key", "go_back", "get_page_info"}
\* names a model may ask for
ToolNames == tool_handlers \cup {"teleport"}

\* the keys a handler reads with params[...]
Required(tool_name) ==
    CASE tool_name = "click" -> {"selector"}
      [] tool_name = "fill" -> {"selector", "value"}
      [] tool_name = "press_key" -> {"key"}
      [] OTHER -> {}

\* the parameters argument: a dict with some keys, or something else
Parameters ==
    {[is_dict |-> TRUE, keys |-> k] : k \in SUBSET {"selector", "value", "key"}}
    \cup {[is_dict |-> FALSE, keys |-> {}]}

\* a result dict; absent keys are None
ToolResult(success, tool, error, error_type) ==
    [success |-> success, tool |-> tool, error |-> error, error_type |-> error_type]

\* what a browser method comes to: a result dict, or an exception
BrowserOutcomes == {"success", "failure", "TimeoutError", "AttributeError"}

ExIdle == [pc |-> "idle", tool_name |-> None, parameters |-> [is_dict |-> TRUE, keys |-> {}],
           seen |-> {}, exc |-> None, browser_ops |-> 0, result |-> None, raised |-> None]

\* executor.py:136-141  an exception escapes to the caller of execute
Caught_Propagated(e, tool_name, exc) ==
    [e EXCEPT !.pc = "returned", !.exc = exc, !.raised = exc]
\* executor.py:136-141  except Exception: the failure result
Caught(e, tool_name, exc) ==
    [e EXCEPT !.pc = "returned", !.exc = exc,
              !.result = ToolResult(FALSE, tool_name, exc, exc)]

\* executor.py:118-130  look the handler up, coerce the parameters
ExEnter ==
    /\ ex.pc = "called"
    /\ ex' = IF ex.tool_name \notin tool_handlers
             THEN [ex EXCEPT !.pc = "returned",
                             !.result = ToolResult(FALSE, None, "Unknown tool", None)]
             ELSE [ex EXCEPT !.pc = "handler",
                             !.seen = IF ex.parameters.is_dict THEN ex.parameters.keys ELSE {}]
    /\ UNCHANGED <<sessVars, gwVars, svcVars, agVars, request, px, rt, reg, ts, cg, tp, lr, fc, ba, sm, po, ck>>

\* executor.py:132-133, 150-301  the handler reads its arguments and calls the browser
ExHandler ==
    /\ ex.pc = "handler"
    /\ ex' = IF Required(ex.tool_name) \subseteq ex.seen
             THEN [ex EXCEPT !.pc = "browser", !.browser_ops = @ + 1]
             ELSE Caught(ex, ex.tool_name, "KeyError")
    /\ UNCHANGED <<sessVars, gwVars, svcVars, agVars, request, px, rt, reg, ts, cg, tp, lr, fc, ba, sm, po, ck>>

\* executor.py:133-141  the browser method comes back
ExBrowserReturn(outcome) ==
    /\ ex.pc = "browser"
    /\ ex' = IF outcome \in {"success", "failure"}
             THEN [ex EXCEPT !.pc = "returned",
                             !.result = ToolResult(outcome = "success", ex.tool_name, None, None)]
             ELSE Caught(ex, ex.tool_name, outcome)
    /\ UNCHANGED <<sessVars, gwVars, svcVars, agVars, request, px, rt, reg, ts, cg, tp, lr, fc, ba, sm, po, ck>>

\* ------------------------------------------------------------------------
\* SessionManager called in any order (services/session.py, api/routes.py)
\* ------------------------------------------------------------------------
RegIdle == [created |-> {}, op |-> None, arg |-> None, ret |-> 0]

\* what the registry calls leave alone
regFrame == <<sid, gwVars, svcVars, agVars, request, px, rt, ex, ts, cg, tp, lr, fc, ba, sm, po, ck>>

\* create_session: uuid4 gives an id never handed out before
RegCreate(id) ==
    /\ id \notin reg.created
    /\ sessions' = CreateSession(id)
    /\ reg' = [reg EXCEPT !.created = @ \cup {id}, !.op = "create", !.arg = id]
    /\ UNCHANGED <<stop_ret, regFrame>>

\* POST /agent/stop/{session_id}
RegStop(id) ==
    /\ StopCall(id)
    /\ reg' = [reg EXCEPT !.op = "stop", !.arg = id]
    /\ UNCHANGED regFrame

\* POST /agent/stop-all
RegStopAll ==
    /\ sessions' = StopAllSessions
    /\ reg' = [reg EXCEPT !.op = "stop_all", !.arg = None, !.ret = StopAllCount]
    /\ UNCHANGED <<stop_ret, regFrame>>

\* session.mark_completed() of a session of the registry
RegMarkCompleted(id) ==
    /\ id \in DOMAIN sessions
    /\ sessions' = MarkCompleted(id)
    /\ reg' = [reg EXCEPT !.op = "mark_completed", !.arg = id]
    /\ UNCHANGED <<stop_ret, regFrame>>

\* remove_session
RegRemove(id) ==
    /\ sessions' = RemoveSession(id)
    /\ reg' = [reg EXCEPT !.op = "remove", !.arg = id]
    /\ UNCHANGED <<stop_ret, regFrame>>

\* cleanup_completed
RegCleanup ==
    /\ sessions' = CleanupCompleted
    /\ reg' = [reg EXCEPT !.op = "cleanup", !.arg = None]
    /\ UNCHANGED <<stop_ret, regFrame>>

\* ------------------------------------------------------------------------
\* Agent._history_to_test_steps (core/agent.py)
\* ------------------------------------------------------------------------
non_actionable_tools ==
    {"screenshot", "get_page_structure", "extract_text", "extract_all_text",
     "get_page_info", "get_element_text", "is_visible", "count_elements",
     "extract_attribute"}

\* tool_to_action.get(tool_name); None for a tool the table lacks
tool_to_action(tool_name) ==
    CASE tool_name = "navigate" -> "navigate"
      [] tool_name = "click" -> "click"
      [] tool_name = "click_text" -> "click_text"
      [] tool_name = "click_nth" -> "click_nth"
      [] tool_name = "find_and_click" -> "click_text"
      [] tool_name = "fill" -> "fill"
      [] tool_name = "type_text" -> "type"
      [] tool_name = "press_key" -> "press"
      [] tool_name = "hover" -> "hover"
      [] tool_name = "select_option" -> "select"
      [] tool_name = "check" -> "check"
      [] tool_name = "uncheck" -> "uncheck"
      [] tool_name = "scroll" -> "scroll"
      [] tool_name = "scroll_to_element" -> "scroll_to"
      [] tool_name = "wait" -> "wait"
      [] tool_name = "wait_for_element" -> "wait_for"
      [] tool_name = "double_click" -> "double_click"
      [] OTHER -> None

TestStep(action, selector, value) ==
    [action |-> action, selector |-> selector, value |-> value, expected |-> None]

\* agent.py:782-813  selector of the step made from a history entry
StepSelector(step) ==
    IF step.tool_name \in {"navigate", "click_text", "find_and_click", "scroll", "wait"}
    THEN None
    ELSE Get(step.tool_args, "selector", None)

\* agent.py:782-813  value of the step made from a history entry
StepValue(step) ==
    CASE step.tool_name = "navigate" -> Get(step.tool_args, "url", None)
      [] step.tool_name = "fill" -> Get(step.tool_args, "value", None)
      [] step.tool_name = "type_text" -> Get(step.tool_args, "text", None)
      [] step.tool_name = "press_key" -> Get(step.tool_args, "key", None)
      [] step.tool_name \in {"click_text", "find_and_click"} ->
            IF Get(step.tool_args, "text", None) # None
            THEN step.tool_args["text"]
            ELSE Get(step.tool_args, "target", None)
      [] step.tool_name = "click_nth" -> Get(step.tool_args, "index", "0")
      [] step.tool_name = "select_option" ->
            IF Get(step.tool_args, "value", None) # None
            THEN step.tool_args["value"]
            ELSE Get(step.tool_args, "label", None)
      [] step.tool_name = "scroll" ->
            <<Get(step.tool_args, "direction", "down"), Get(step.tool_args, "amount", "500")>>
      [] step.tool_name = "wait" -> Get(step.tool_args, "timeout", "1000")
      [] OTHER -> None

\* f"{action}:{selector}:{value}"
ActionKey(t) == <<t.action, t.selector, t.value>>

RECURSIVE StepsLoop_KeepFailed(_, _, _)
\* the loop without the test of step.error
StepsLoop_KeepFailed(history, test_steps, seen_actions) ==
    IF history = <<>> THEN test_steps
    ELSE LET step == Head(history)
             action == tool_to_action(step.tool_name)
             t == TestStep(action, StepSelector(step), StepValue(step))
         IN IF \/ step.tool_name \in non_actionable_tools
               \/ action = None
               \/ ActionKey(t) \in seen_actions
            THEN StepsLoop_KeepFailed(Tail(history), test_steps, seen_actions)
            ELSE StepsLoop_KeepFailed(Tail(history), Append(test_steps, t),
                                      seen_actions \cup {ActionKey(t)})

RECURSIVE StepsLoop(_, _, _)
\* agent.py:766-826  the loop over self.history
StepsLoop(history, test_steps, seen_actions) ==
    IF history = <<>> THEN test_steps
    ELSE LET step == Head(history)
             action == tool_to_action(step.tool_name)
             t == TestStep(action, StepSelector(step), StepValue(step))
         IN IF \/ step.error # None
               \/ step.tool_name \in non_actionable_tools
               \/ action = None
               \/ ActionKey(t) \in seen_actions
            THEN StepsLoop(Tail(history), test_steps, seen_actions)
            ELSE StepsLoop(Tail(history), Append(test_steps, t),
                           seen_actions \cup {ActionKey(t)})

\* Agent._history_to_test_steps
history_to_test_steps(history, url) ==
    StepsLoop(history, <<TestStep("navigate", None, url)>>, {})

\* the tool calls the histories are made of
HistoryCalls ==
    {Call("navigate", [url |-> "a"]), Call("navigate", [url |-> "b"]),
     Call("click", [selector |-> "#x"]), Call("fill", [selector |-> "#x", value |-> "v"]),
     Call("click_text", [text |-> "Login"]), Call("get_page_info", NoArgs),
     Call("go_back", NoArgs)}

Histories ==
    UNION {[1..n -> {AgentStep(0, tc, ok) : tc \in HistoryCalls, ok \in BOOLEAN}] :
              n \in 0..MaxHistory}

TsIdle == [pc |-> "idle", url |-> None, history |-> <<>>, test_steps |-> <<>>]

\* agent.py:722-828  _history_to_test_steps(url) on self.history
TsTransform ==
    /\ ts.pc = "called"
    /\ ts' = [ts EXCEPT !.pc = "returned",
                        !.test_steps = history_to_test_steps(ts.history, ts.url)]
    /\ UNCHANGED <<sessVars, gwVars, svcVars, agVars, request, px, rt, ex, reg, cg, tp, lr, fc, ba, sm, po, ck>>

\* ------------------------------------------------------------------------
\* CodeGenService._step_to_typescript (services/codegen.py).  A string is a
\* sequence of one-character strings; the literal parts of a statement are
\* single tokens.
\* ------------------------------------------------------------------------
\* None where a string is expected
NoneStr == <<None>>

Digits == {"0", "1", "2", "3", "4", "5", "6", "7", "8", "9"}

\* str.isdigit()
IsDigit(s) == s # <<>> /\ \A i \in DOMAIN s : s[i] \in Digits

RECURSIVE Escape(_)
\* codegen.py:151-154  s.replace("\\", "\\\\").replace("'", "\\'")
Escape(s) ==
    IF s = <<>> THEN <<>>
    ELSE (IF Head(s) \in {"\\", "'"} THEN <<"\\", Head(s)>> ELSE <<Head(s)>>) \o Escape(Tail(s))

\* escape(x) if x else ""
EscapeOrEmpty(x) == IF x = NoneStr \/ x = <<>> THEN <<>> ELSE Escape(x)

\* index of the first ":" of s, 0 if there is none
Colon(s) == IF \E i \in DOMAIN s : s[i] = ":"
            THEN CHOOSE i \in DOMAIN s : s[i] = ":" /\ \A j \in 1..(i - 1) : s[j] # ":"
            ELSE 0

RECURSIVE IntStr(_)
\* str(int(s)) for a string of digits
IntStr(s) == IF Len(s) > 1 /\ Head(s) = "0" THEN IntStr(Tail(s)) ELSE s

\* str.lower() on the action names used
LowerAction(a) == IF a = "WAIT" THEN "wait" ELSE a

\* codegen.py:146-208  the statement for one step
step_to_typescript(step) ==
    LET action == LowerAction(step.action)
        selector == EscapeOrEmpty(step.selector)
        value == EscapeOrEmpty(step.value)
        One(a, x, b) == <<a>> \o x \o <<b>>
        Two(a, x, b, y, c) == <<a>> \o x \o <<b>> \o y \o <<c>>
    IN CASE action = "navigate" -> One("await page.goto('", value, "');")
         [] action = "click" -> One("await page.click('", selector, "');")
         [] action = "click_text" -> One("await page.getByText('", value, "').click();")
         [] action = "click_nth" ->
               Two("await page.locator('", selector, "').nth(",
                   IF step.value = NoneStr \/ step.value = <<>> THEN <<"0">> ELSE step.value,
                   ").click();")
         [] action = "double_click" -> One("await page.dblclick('", selector, "');")
         [] action = "fill" -> Two("await page.fill('", selector, "', '", value, "');")
         [] action = "type" -> Two("await page.type('", selector, "', '", value, "');")
         [] action = "press" ->
               IF selector # <<>>
               THEN Two("await page.press('", selector, "', '", value, "');")
               ELSE One("await page.keyboard.press('", value, "');")
         [] action = "hover" -> One("await page.hover('", selector, "');")
         [] action = "select" -> Two("await page.selectOption('", selector, "', '", value, "');")
         [] action = "check" -> One("await page.check('", selector, "');")
         [] action = "uncheck" -> One("await page.uncheck('", selector, "');")
         [] action = "scroll" ->
               IF Colon(value) > 0
               THEN LET direction == SubSeq(value, 1, Colon(value) - 1)
                        tail == SubSeq(value, Colon(value) + 1, Len(value))
                        amount == IF IsDigit(tail) THEN IntStr(tail) ELSE <<"5", "0", "0">>
                    IN IF direction = <<"u", "p">>
                       THEN One("await page.mouse.wheel(0, -", amount, ");")
                       ELSE One("await page.mouse.wheel(0, ", amount, ");")
               ELSE <<"await page.mouse.wheel(0, 500);">>
         [] action = "scroll_to" ->
               One("await page.locator('", selector, "').scrollIntoViewIfNeeded();")
         [] action = "wait" ->
               One("await page.waitForTimeout(",
                   IF IsDigit(value) THEN value ELSE <<"1", "0", "0", "0">>, ");")
         [] action = "wait_for" ->
               IF step.expected = <<"visible">>
               THEN One("await page.locator('", selector, "').waitFor({ state: 'visible' });")
               ELSE One("await page.waitForSelector('", selector, "');")
         [] action \in {"assert", "expect"} ->
               IF step.expected # NoneStr /\ step.expected # <<>>
               THEN Two("await expect(page.locator('", selector, "')).toContainText('",
                        Escape(step.expected), "');")
               ELSE One("await expect(page.locator('", selector, "')).toBeVisible();")
         [] OTHER -> <<"// Unknown action: ", action>>

\* the steps of the test plans given to the generator
PlanActions ==
    {"navigate", "click", "click_text", "click_nth", "double_click", "fill", "type",
     "press", "hover", "select", "check", "uncheck", "scroll", "scroll_to", "wait",
     "WAIT", "wait_for", "assert", "expect", "drag"}
PlanSelectors == {NoneStr, <<".", "d">>, <<"'", "d">>}
PlanValues == {NoneStr, <<"5">>, <<"d">>, <<"u", "p", ":", "0", "5">>}
\* the word visible is one token of an expected text
PlanExpected == {NoneStr, <<"visible">>, <<"d", "'">>}

PlanSteps ==
    {[TestStep(a, sel, v) EXCEPT !.expected = e] :
        a \in PlanActions, sel \in PlanSelectors, v \in PlanValues, e \in PlanExpected}

CgIdle == [pc |-> "idle", step |-> [TestStep(None, NoneStr, NoneStr) EXCEPT !.expected = NoneStr],
           code |-> <<>>]

\* codegen.py:100-113  _generate_typescript on a plan of one step
CgStepToTypescript ==
    /\ cg.pc = "called"
    /\ cg' = [cg EXCEPT !.pc = "returned", !.code = step_to_typescript(cg.step)]
    /\ UNCHANGED <<sessVars, gwVars, svcVars, agVars, request, px, rt, ex, reg, ts, tp, lr, fc, ba, sm, po, ck>>

\* ------------------------------------------------------------------------
\* Text-protocol tool calls (llm/perplexity.py:442-579,
\* llm/huggingface.py:215-249).  A reply is a sequence of one-character
\* strings in which the markers TOOL_CALL: and ARGUMENTS: and a tool name
\* are single tokens.  A parsed JSON object is the set of its <<key, value>>
\* pairs, a value being <<"s", string>>, <<"n", digits>> or <<"o", object>>.
\* ------------------------------------------------------------------------
TOOL_CALL == "TOOL_CALL:"
ARGUMENTS == "ARGUMENTS:"
Quote == "\""
Backslash == "\\"
Space == " "
Letters == {"a", "k"}
ToolWords == {"click", "fill"}
\* content[search_start:search_start + 500], in tokens
SearchWindow == 500

Failed == [ok |-> FALSE, v |-> {}, next |-> 0]
Parsed(v, next) == [ok |-> TRUE, v |-> v, next |-> next]

RECURSIVE SkipWs(_, _)
\* the first position at or after i that holds no whitespace
SkipWs(t, i) == IF i <= Len(t) /\ t[i] = Space THEN SkipWs(t, i + 1) ELSE i

RECURSIVE ScanString(_, _, _)
\* json: the characters of a string literal whose opening quote precedes i
ScanString(t, i, acc) ==
    IF i > Len(t) THEN Failed
    ELSE IF t[i] = Quote THEN Parsed(acc, i + 1)
    ELSE IF t[i] = Backslash
         THEN IF i + 1 <= Len(t) /\ t[i + 1] \in {Quote, Backslash}
              THEN ScanString(t, i + 2, Append(acc, t[i + 1]))
              ELSE Failed
    ELSE ScanString(t, i + 1, Append(acc, t[i]))

RECURSIVE ScanDigits(_, _)
ScanDigits(t, i) == IF i <= Len(t) /\ t[i] \in Digits THEN ScanDigits(t, i + 1) ELSE i

\* dict[key] = value
SetKey(obj, key, value) == {p \in obj : p[1] # key} \cup {<<key, value>>}

RECURSIVE ParseValue(_, _)
RECURSIVE ParseMembers(_, _, _)
\* json: the members of an object, the first key starting at i
ParseMembers(t, i, acc) ==
    IF i > Len(t) \/ t[i] # Quote THEN Failed
    ELSE LET key == ScanString(t, i + 1, <<>>)
             c == SkipWs(t, key.next)
         IN IF ~ key.ok \/ c > Len(t) \/ t[c] # ":" THEN Failed
            ELSE LET val == ParseValue(t, SkipWs(t, c + 1))
                     e == SkipWs(t, val.next)
                 IN IF ~ val.ok \/ e > Len(t) THEN Failed
                    ELSE IF t[e] = "}" THEN Parsed(SetKey(acc, key.v, val.v), e + 1)
                    ELSE IF t[e] = ","
                         THEN ParseMembers(t, SkipWs(t, e + 1), SetKey(acc, key.v, val.v))
                    ELSE Failed

\* json: the value starting at i
ParseValue(t, i) ==
    IF i > Len(t) THEN Failed
    ELSE IF t[i] = Quote
         THEN LET s == ScanString(t, i + 1, <<>>)
              IN IF s.ok THEN Parsed(<<"s", s.v>>, s.next) ELSE Failed
    ELSE IF t[i] \in Digits
         THEN LET e == ScanDigits(t, i)
              IN Parsed(<<"n", SubSeq(t, i, e - 1)>>, e)
    ELSE IF t[i] = "{"
         THEN LET j == SkipWs(t, i + 1)
              IN IF j <= Len(t) /\ t[j] = "}" THEN Parsed(<<"o", {}>>, j + 1)
                 ELSE LET m == ParseMembers(t, j, {})
                      IN IF m.ok THEN Parsed(<<"o", m.v>>, m.next) ELSE Failed
    ELSE Failed

\* json.loads of a text that starts with an opening brace
json_loads(t) ==
    LET r == ParseValue(t, SkipWs(t, 1))
    IN IF r.ok /\ SkipWs(t, r.next) > Len(t) THEN Parsed(r.v[2], r.next) ELSE Failed

RECURSIVE ScanIdent(_, _)
ScanIdent(t, i) ==
    IF i <= Len(t) /\ t[i] \in Letters \cup Digits THEN ScanIdent(t, i + 1) ELSE i

RECURSIVE FixUnquoted(_, _)
\* perplexity.py:507  re.sub(r':\s*([a-zA-Z_][a-zA-Z0-9_]*)\s*([,}])', r': "\1"\2')
FixUnquoted(t, i) ==
    IF i > Len(t) THEN <<>>
    ELSE LET j == SkipWs(t, i + 1)
             k == ScanIdent(t, j)
             m == SkipWs(t, k)
         IN IF /\ t[i] = ":" /\ j <= Len(t) /\ t[j] \in Letters
               /\ m <= Len(t) /\ t[m] \in {",", "}"}
            THEN <<":", Space, Quote>> \o SubSeq(t, j, k - 1) \o <<Quote, t[m]>>
                     \o FixUnquoted(t, m + 1)
            ELSE <<t[i]>> \o FixUnquoted(t, i + 1)

RECURSIVE FixTrailingComma(_, _)
\* perplexity.py:511  re.sub(r',\s*}', r'}')
FixTrailingComma(t, i) ==
    IF i > Len(t) THEN <<>>
    ELSE LET j == SkipWs(t, i + 1)
         IN IF t[i] = "," /\ j <= Len(t) /\ t[j] = "}"
            THEN <<"}">> \o FixTrailingComma(t, j + 1)
            ELSE <<t[i]>> \o FixTrailingComma(t, i + 1)

\* PerplexityClient._try_fix_json (the texts hold no single quote and no bracket)
try_fix_json(json_str, end_pos) ==
    LET r == json_loads(FixTrailingComma(FixUnquoted(json_str, 1), 1))
    IN IF r.ok THEN Parsed(r.v, end_pos) ELSE Failed

RECURSIVE Find(_, _, _)
\* str.find: the first position at or after i that holds c, 0 if none
Find(t, c, i) ==
    IF i > Len(t) THEN 0 ELSE IF t[i] = c THEN i ELSE Find(t, c, i + 1)

RECURSIVE BraceLoop(_, _, _, _, _, _)
\* perplexity.py:461-489  the loop over text[brace_start:]
BraceLoop(text, brace_start, i, depth, in_string, escape_next) ==
    IF i > Len(text) THEN Failed
    ELSE LET char == text[i]
         IN IF escape_next THEN BraceLoop(text, brace_start, i + 1, depth, in_string, FALSE)
            ELSE IF char = Backslash /\ in_string
                 THEN BraceLoop(text, brace_start, i + 1, depth, in_string, TRUE)
            ELSE IF char = Quote
                 THEN BraceLoop(text, brace_start, i + 1, depth, ~ in_string, FALSE)
            ELSE IF in_string
                 THEN BraceLoop(text, brace_start, i + 1, depth, in_string, FALSE)
            ELSE IF char = "{"
                 THEN BraceLoop(text, brace_start, i + 1, depth + 1, in_string, FALSE)
            ELSE IF char = "}"
                 THEN IF depth - 1 = 0
                      THEN LET json_str == SubSeq(text, brace_start, i)
                               r == json_loads(json_str)
                           IN IF r.ok THEN Parsed(r.v, i + 1)
                              ELSE try_fix_json(json_str, i + 1)
                      ELSE BraceLoop(text, brace_start, i + 1, depth - 1, in_string, FALSE)
            ELSE BraceLoop(text, brace_start, i + 1, depth, in_string, FALSE)

\* PerplexityClient._extract_json_object
extract_json_object(text, start_pos) ==
    LET brace_start == Find(text, "{", start_pos)
    IN IF brace_start = 0 THEN Failed
       ELSE BraceLoop(text, brace_start, brace_start, 0, FALSE, FALSE)

\* re.finditer(r'TOOL_CALL:\s*(\w+)'): the positions of the tool names
ToolNameAt(content) ==
    {n \in DOMAIN content :
        /\ content[n] \in ToolWords
        /\ \E m \in 1..(n - 1) :
              /\ content[m] = TOOL_CALL
              /\ \A k \in (m + 1)..(n - 1) : content[k] = Space}

\* content[search_start:search_start + 500]
Remaining(content, search_start) ==
    SubSeq(content, search_start,
           IF search_start + SearchWindow - 1 < Len(content)
           THEN search_start + SearchWindow - 1 ELSE Len(content))

TextCall(name, arguments) == [name |-> name, arguments |-> arguments]

\* perplexity.py:538-562  the tool call of the match whose name is at n
PxCallAt(content, n) ==
    LET search_start == n + 1
        args_match == Find(Remaining(content, search_start), ARGUMENTS, 1)
        json_start == IF args_match # 0 THEN search_start + args_match ELSE search_start
        json_result == extract_json_object(content, json_start)
    IN TextCall(content[n], IF json_result.ok THEN json_result.v ELSE {})

RECURSIVE InOrder(_, _)
\* the positions of a set, in the order of the text
InOrder(names, n) ==
    IF names = {} THEN <<>>
    ELSE IF n \in names THEN <<n>> \o InOrder(names \ {n}, n + 1)
    ELSE InOrder(names, n + 1)

RECURSIVE UniqueCalls(_, _)
\* perplexity.py:570-577  deduplication on name and arguments
UniqueCalls(tool_calls, seen) ==
    IF tool_calls = <<>> THEN <<>>
    ELSE IF Head(tool_calls) \in seen THEN UniqueCalls(Tail(tool_calls), seen)
    ELSE <<Head(tool_calls)>> \o UniqueCalls(Tail(tool_calls), seen \cup {Head(tool_calls)})

\* PerplexityClient._extract_tool_calls; the XML and function-call
\* strategies (581-633) match no text over these characters.  <<>> is None.
px_extract_tool_calls(content) ==
    LET matches == InOrder(ToolNameAt(content), 1)
    IN UniqueCalls([i \in DOMAIN matches |-> PxCallAt(content, matches[i])], {})

\* re.search(r'ARGUMENTS:\s*(\{[^}]+\})'): the group of the first match, <<>> if none
HfArgsFrom(t, m) ==
    LET b == SkipWs(t, m + 1)
        e == Find(t, "}", b + 1)
    IN IF b <= Len(t) /\ t[b] = "{" /\ e > b + 1 THEN SubSeq(t, b, e) ELSE <<>>

RECURSIVE HfArgsSearch(_, _)
HfArgsSearch(t, i) ==
    IF i > Len(t) THEN <<>>
    ELSE IF t[i] = ARGUMENTS /\ HfArgsFrom(t, i) # <<>> THEN HfArgsFrom(t, i)
    ELSE HfArgsSearch(t, i + 1)

\* huggingface.py:224-247  the tool call of the match whose name is at n
\* (replacing single quotes changes no text over these characters)
HfCallAt(content, n) ==
    LET remaining == Remaining(content, n + 1)
        group == HfArgsSearch(remaining, 1)
        r == IF group = <<>> THEN Failed ELSE json_loads(group)
    IN TextCall(content[n], IF r.ok THEN r.v ELSE {})

\* HuggingFaceClient._extract_tool_calls
hf_extract_tool_calls(content) ==
    LET matches == InOrder(ToolNameAt(content), 1)
    IN [i \in DOMAIN matches |-> HfCallAt(content, matches[i])]

\* JSON texts with the object each one denotes
JsonSample(text, value, valid) == [text |-> text, value |-> value, valid |-> valid]
JS(s) == <<"s", s>>
JsonSamples ==
    {JsonSample(<<"{", "}">>, {}, TRUE),
     JsonSample(<<"{", Quote, "a", Quote, ":", Quote, "k", Quote, "}">>,
                {<<(<<"a">>), JS(<<"k">>)>>}, TRUE),
     JsonSample(<<"{", Quote, "a", Quote, ":", "{", Quote, "k", Quote, ":", Quote, "1", Quote,
                  "}", "}">>,
                {<<(<<"a">>), <<"o", {<<(<<"k">>), JS(<<"1">>)>>}>>>>}, TRUE),
     JsonSample(<<"{", Quote, "a", Quote, ":", Quote, "}", Quote, "}">>,
                {<<(<<"a">>), JS(<<"}">>)>>}, TRUE),
     JsonSample(<<"{", Quote, "a", Quote, ":", Quote, "{", Quote, "}">>,
                {<<(<<"a">>), JS(<<"{">>)>>}, TRUE),
     JsonSample(<<"{", Quote, "a", Quote, ":", Quote, Backslash, Quote, Quote, "}">>,
                {<<(<<"a">>), JS(<<Quote>>)>>}, TRUE),
     JsonSample(<<"{", Quote, "a", Quote, ":", Quote, Backslash, Backslash, Quote, "}">>,
                {<<(<<"a">>), JS(<<Backslash>>)>>}, TRUE),
     JsonSample(<<"{", Quote, "a", Quote, ":", Quote, Backslash, Quote, "}", Quote, "}">>,
                {<<(<<"a">>), JS(<<Quote, "}">>)>>}, TRUE),
     JsonSample(<<"{", Quote, "a", Quote, ":", "{", Quote, "k", Quote, ":", "{", "}", "}", ",",
                  Quote, "k", Quote, ":", Quote, "1", Quote, "}">>,
                {<<(<<"a">>), <<"o", {<<(<<"k">>), <<"o", {}>>>>}>>>>,
                 <<(<<"k">>), JS(<<"1">>)>>}, TRUE),
     JsonSample(<<"{", Space, Quote, "a", Quote, Space, ":", Space, "1", Space, "}">>,
                {<<(<<"a">>), <<"n", <<"1">>>>>>}, TRUE),
     JsonSample(<<"{", Quote, "a", Quote, ":", "k", "}">>, {}, FALSE),
     JsonSample(<<"{", Quote, "a", Quote, ":", Quote, "k", Quote, ",", "}">>, {}, FALSE)}

\* text before the tool call and text after its arguments
ReplyPrefixes == {<<>>, <<"a", Space>>}
ReplySuffixes ==
    {<<>>, <<Space, "}">>,
     <<Space, TOOL_CALL, Space, "fill", Space, ARGUMENTS, Space,
       "{", Quote, "k", Quote, ":", Quote, "a", Quote, "}">>}

\* a reply "TOOL_CALL: <name> ARGUMENTS: <JSON>" with the text around it
Reply(prefix, name, sample, suffix) ==
    [content |-> prefix \o <<TOOL_CALL, Space, name, Space, ARGUMENTS, Space>>
                     \o sample.text \o suffix,
     name |-> name, sample |-> sample]

Replies ==
    {Reply(p, n, j, s) : p \in ReplyPrefixes, n \in ToolWords, j \in JsonSamples,
                         s \in ReplySuffixes}

TpIdle == [pc |-> "idle", reply |-> Reply(<<>>, "click", JsonSample(<<>>, {}, FALSE), <<>>),
           parser |-> None, tool_calls |-> <<>>]

\* perplexity.py:431  _parse_response hands the content to the parser
TpPerplexity ==
    /\ tp.pc = "reply"
    /\ tp' = [tp EXCEPT !.pc = "parsed", !.parser = "perplexity",
                        !.tool_calls = px_extract_tool_calls(tp.reply.content)]
    /\ UNCHANGED <<sessVars, gwVars, svcVars, agVars, request, px, rt, ex, reg, ts, cg, lr, fc, ba, sm, po, ck>>

\* huggingface.py:207  _parse_response hands the content to the parser
TpHuggingFace ==
    /\ tp.pc = "reply"
    /\ tp' = [tp EXCEPT !.pc = "parsed", !.parser = "huggingface",
                        !.tool_calls = hf_extract_tool_calls(tp.reply.content)]
    /\ UNCHANGED <<sessVars, gwVars, svcVars, agVars, request, px, rt, ex, reg, ts, cg, lr, fc, ba, sm, po, ck>>

\* ------------------------------------------------------------------------
\* _parse_response of the three clients (llm/gemini.py:229-266,
\* llm/perplexity.py:403-440, llm/huggingface.py:198-213).  A tool-call
\* list None is the empty sequence.
\* ------------------------------------------------------------------------
\* a key the provider's JSON does not hold
Absent == "absent"
AbsentText == <<Absent>>

LLMResponse(content, tool_calls, finish_reason) ==
    [content |-> content, tool_calls |-> tool_calls, finish_reason |-> finish_reason]

\* dict.get(key, default) on a field that may be absent
GetOr(value, default) == IF value = Absent THEN default ELSE value

TextPart == [kind |-> "text", name |-> None]
FunctionCallPart(name) == [kind |-> "functionCall", name |-> name]

RECURSIVE GeminiCalls(_)
\* gemini.py:246-256  the functionCall parts, in order
GeminiCalls(parts) ==
    IF parts = <<>> THEN <<>>
    ELSE (IF Head(parts).kind = "functionCall" THEN <<TextCall(Head(parts).name, {})>> ELSE <<>>)
             \o GeminiCalls(Tail(parts))

\* GeminiClient._parse_response
gemini_parse_response(data) ==
    IF data.candidates = <<>> THEN LLMResponse(NoneStr, <<>>, "error")
    ELSE LET candidate == data.candidates[1]
             tool_calls == GeminiCalls(candidate.parts)
             text_content == IF \E i \in DOMAIN candidate.parts : candidate.parts[i].kind = "text"
                             THEN <<"a">> ELSE NoneStr
             finish_reason == GetOr(candidate.finishReason, "STOP")
         IN LLMResponse(text_content, tool_calls,
                        IF finish_reason = "STOP"
                        THEN (IF tool_calls # <<>> THEN "tool_calls" ELSE "stop")
                        ELSE finish_reason)

\* perplexity.py:419-430  has_tool_indicator
HasToolIndicator(content) ==
    \E i \in DOMAIN content : content[i] \in {TOOL_CALL, ARGUMENTS} \cup ToolWords

\* PerplexityClient._parse_response
perplexity_parse_response(data, has_tools) ==
    IF data.choices = <<>> THEN LLMResponse(NoneStr, <<>>, "error")
    ELSE LET choice == data.choices[1]
             content == choice.content
             tool_calls == IF has_tools /\ content # <<>> /\ HasToolIndicator(content)
                           THEN px_extract_tool_calls(content) ELSE <<>>
         IN LLMResponse(content, tool_calls,
                        IF tool_calls # <<>> THEN "tool_calls"
                        ELSE GetOr(choice.finish_reason, "stop"))

\* HuggingFaceClient._parse_response
huggingface_parse_response(data, has_tools) ==
    LET d == IF data.is_list
             THEN (IF data.items # <<>> THEN data.items[1] ELSE [generated_text |-> AbsentText])
             ELSE data.items[1]
        content == IF d.generated_text = AbsentText THEN <<>> ELSE d.generated_text
        tool_calls == IF has_tools /\ (\E i \in DOMAIN content : content[i] = TOOL_CALL)
                      THEN hf_extract_tool_calls(content) ELSE <<>>
    IN LLMResponse(content, tool_calls, IF tool_calls # <<>> THEN "tool_calls" ELSE "stop")

\* finish reasons the providers report (Gemini's enum, the OpenAI-style
\* reasons of the chat-completions format, JSON null, or no key)
GeminiReasons == {Absent, "STOP", "MAX_TOKENS", "SAFETY", "RECITATION", "OTHER"}
ChatReasons == {Absent, None, "stop", "length", "content_filter"}

GeminiParts ==
    {<<>>, <<TextPart>>, <<FunctionCallPart("click")>>,
     <<TextPart, FunctionCallPart("click")>>,
     <<FunctionCallPart("click"), FunctionCallPart("fill")>>}

GeminiData ==
    {[candidates |-> <<>>]}
    \cup {[candidates |-> <<[parts |-> p, finishReason |-> r]>>] :
             p \in GeminiParts, r \in GeminiReasons}

ChatContents ==
    {<<>>, <<"a">>, <<"a", Space, "click">>,
     <<TOOL_CALL, Space, "click", Space, ARGUMENTS, Space, "{", "}">>,
     <<"a", Space, TOOL_CALL, Space, "fill", Space, ARGUMENTS, Space,
       "{", Quote, "a", Quote, ":", "{", Quote, "k", Quote, ":", Quote, "1", Quote, "}", "}">>}

PerplexityData ==
    {[choices |-> <<>>]}
    \cup {[choices |-> <<[content |-> c, finish_reason |-> r]>>] :
             c \in ChatContents, r \in ChatReasons}

HuggingFaceData ==
    {[is_list |-> TRUE, items |-> <<>>]}
    \cup {[is_list |-> l, items |-> <<[generated_text |-> c]>>] :
             l \in BOOLEAN, c \in ChatContents \cup {AbsentText}}

LrIdle == [pc |-> "idle", client |-> None, data |-> <<>>, has_tools |-> FALSE,
           response |-> LLMResponse(NoneStr, <<>>, None)]

\* gemini.py:93  chat returns self._parse_response(data)
LrGemini ==
    /\ lr.pc = "received" /\ lr.client = "gemini"
    /\ lr' = [lr EXCEPT !.pc = "returned", !.response = gemini_parse_response(lr.data)]
    /\ UNCHANGED <<sessVars, gwVars, svcVars, agVars, request, px, rt, ex, reg, ts, cg, tp, fc, ba, sm, po, ck>>

\* perplexity.py:113  chat returns self._parse_response(data, has_tools)
LrPerplexity ==
    /\ lr.pc = "received" /\ lr.client = "perplexity"
    /\ lr' = [lr EXCEPT !.pc = "returned",
                        !.response = perplexity_parse_response(lr.data, lr.has_tools)]
    /\ UNCHANGED <<sessVars, gwVars, svcVars, agVars, request, px, rt, ex, reg, ts, cg, tp, fc, ba, sm, po, ck>>

\* huggingface.py:85  chat returns self._parse_response(data, has_tools)
LrHuggingFace ==
    /\ lr.pc = "received" /\ lr.client = "huggingface"
    /\ lr' = [lr EXCEPT !.pc = "returned",
                        !.response = huggingface_parse_response(lr.data, lr.has_tools)]
    /\ UNCHANGED <<sessVars, gwVars, svcVars, agVars, request, px, rt, ex, reg, ts, cg, tp, fc, ba, sm, po, ck>>

\* ------------------------------------------------------------------------
\* SyncBrowserWrapper.find_and_click and click_text (core/sync_browser.py).
\* A page says, for each engine call, whether it clicks the target, returns
\* without a click, or raises.
\* ------------------------------------------------------------------------
StrategyOrder == <<"text_match", "selector", "force_selector", "js_text_walk">>

Page(text_locator, js_fallback, selector, force, walk, scroll) ==
    [text_locator |-> text_locator, js_fallback |-> js_fallback, selector |-> selector,
     force |-> force, walk |-> walk, scroll |-> scroll]

Pages ==
    {Page(t, j, s, f, w, sc) :
        t \in {"click", "raise"}, j \in {"true", "false", "raise"},
        s \in {"click", "raise"}, f \in {"click", "raise"},
        w \in {"true", "false", "raise"}, sc \in {"ok", "raise"}}

\* what a method did: its result, the engine calls it made, and the
\* strategy whose call clicked the target (None if no call did)
Did(success, strategy, engine, clicked_by) ==
    [result |-> [success |-> success, strategy |-> strategy],
     engine |-> engine, clicked_by |-> clicked_by]

\* sync_browser.py:616-660  click_text(text, "any", False)
click_text(page) ==
    IF page.text_locator = "click"
    THEN Did(TRUE, None, <<"get_by_text.click">>, "text_match")
    ELSE IF page.js_fallback = "raise"
         THEN Did(FALSE, None, <<"get_by_text.click", "evaluate(text search)">>, None)
         ELSE Did(TRUE, None, <<"get_by_text.click", "evaluate(text search)">>,
                  IF page.js_fallback = "true" THEN "text_match" ELSE None)

\* sync_browser.py:983-1047
find_and_click(page, scroll_first) ==
    LET e0 == <<"dismiss_overlays">> \o (IF scroll_first THEN <<"scrollBy">> ELSE <<>>)
        r1 == click_text(page)
        e1 == e0 \o r1.engine
        e2 == e1 \o <<"click">>
        e3 == e2 \o <<"click(force)">>
        e4 == e3 \o <<"evaluate(tree walk)">>
    IN IF r1.result.success THEN Did(TRUE, "text_match", e1, r1.clicked_by)
       ELSE IF page.selector = "click" THEN Did(TRUE, "selector", e2, "selector")
       ELSE IF page.force = "click" THEN Did(TRUE, "force_selector", e3, "force_selector")
       ELSE IF page.walk = "true" THEN Did(TRUE, "js_text_walk", e4, "js_text_walk")
       ELSE Did(FALSE, None, e4, None)

\* the strategy an engine call belongs to
StrategyOf(op) ==
    CASE op \in {"get_by_text.click", "evaluate(text search)"} -> "text_match"
      [] op = "click" -> "selector"
      [] op = "click(force)" -> "force_selector"
      [] op = "evaluate(tree walk)" -> "js_text_walk"
      [] OTHER -> None

FcIdle == [pc |-> "idle", page |-> Page("click", "true", "click", "click", "true", "ok"),
           scroll_first |-> FALSE, did |-> Did(FALSE, None, <<>>, None)]

\* sync_browser.py:1241-1242  the adapter runs find_and_click on the worker
FcFindAndClick ==
    /\ fc.pc = "called"
    /\ fc' = [fc EXCEPT !.pc = "returned", !.did = find_and_click(fc.page, fc.scroll_first)]
    /\ UNCHANGED <<sessVars, gwVars, svcVars, agVars, request, px, rt, ex, reg, ts, cg, tp, lr, ba, sm, po, ck>>

\* sync_browser.py:1229-1230  the adapter runs click_text on the worker
FcClickText ==
    /\ fc.pc = "called_text"
    /\ fc' = [fc EXCEPT !.pc = "returned_text", !.did = click_text(fc.page)]
    /\ UNCHANGED <<sessVars, gwVars, svcVars, agVars, request, px, rt, ex, reg, ts, cg, tp, lr, ba, sm, po, ck>>

\* ------------------------------------------------------------------------
\* AsyncBrowserAdapter (core/sync_browser.py:1050-1107): tasks of the event
\* loop call launch, an operation (goto) and close; _run_sync hands the
\* work to a ThreadPoolExecutor whose workers run it on a
\* SyncBrowserWrapper.  Wrappers are numbered; 0 is None.
\* ------------------------------------------------------------------------
max_workers == 1
Workers == 1..max_workers
Tasks == {"t1", "t2"}

\* a work item of the executor; late says that a close had returned when
\* it was submitted, on_engine that running it called the browser engine
Item(seq, op, w, t, late) ==
    [seq |-> seq, op |-> op, w |-> w, t |-> t, late |-> late, on_engine |-> FALSE]
NoItem == Item(0, None, 0, None, FALSE)

BaIdle ==
    [browser |-> 0, shutdown |-> FALSE, nwrap |-> 0, page |-> {}, queue |-> <<>>,
     running |-> [k \in Workers |-> NoItem],
     task |-> [t \in Tasks |-> [pc |-> "idle", op |-> None, ok |-> FALSE]],
     engine |-> <<>>, nsub |-> 0, close_returned |-> FALSE,
     overlapped |-> FALSE, refused |-> FALSE]

baFrame == <<sessVars, gwVars, svcVars, agVars, request, px, rt, ex, reg, ts, cg, tp, lr, fc, sm, po, ck>>

\* a queue that hands out its newest item first
Dequeue_Lifo(queue) ==
    [item |-> queue[Len(queue)], rest |-> SubSeq(queue, 1, Len(queue) - 1)]
\* the executor's work queue is first in, first out
Dequeue(queue) == [item |-> Head(queue), rest |-> Tail(queue)]

\* _run_sync: loop.run_in_executor(self._executor, ...); it raises
\* RuntimeError once the executor is shut down
RunSync(b, t, op, w) ==
    IF b.shutdown
    THEN [b EXCEPT !.nsub = @ + 1, !.refused = @ \/ b.close_returned]
    ELSE [b EXCEPT !.nsub = @ + 1,
                   !.queue = Append(@, Item(b.nsub + 1, op, w, t, b.close_returned)),
                   !.task[t] = [pc |-> "waiting", op |-> op, ok |-> FALSE],
                   !.overlapped = @ \/ b.queue # <<>>
                                    \/ (\E k \in Workers : b.running[k] # NoItem)]

\* sync_browser.py:1085-1093
BaLaunch(t) ==
    /\ ba.task[t].pc = "idle" /\ ba.nsub < MaxOps
    /\ LET w == ba.nwrap + 1
       IN ba' = RunSync([ba EXCEPT !.nwrap = w, !.browser = w], t, "launch", w)
    /\ UNCHANGED baFrame

\* sync_browser.py:1102-1111  an operation: the browser property, then _run_sync
BaGoto(t) ==
    /\ ba.task[t].pc = "idle" /\ ba.nsub < MaxOps
    /\ ba' = IF ba.browser = 0
             THEN [ba EXCEPT !.nsub = @ + 1, !.refused = @ \/ ba.close_returned]
             ELSE RunSync(ba, t, "goto", ba.browser)
    /\ UNCHANGED baFrame

\* sync_browser.py:1095-1100  close, up to its await
BaClose(t) ==
    /\ ba.task[t].pc = "idle" /\ ba.nsub < MaxOps
    /\ ba' = IF ba.browser # 0
             THEN RunSync(ba, t, "close", ba.browser)
             ELSE [ba EXCEPT !.nsub = @ + 1, !.shutdown = TRUE, !.close_returned = TRUE]
    /\ UNCHANGED baFrame

\* a worker thread takes the next work item and runs it: launch starts the
\* engine (sync_browser.py:53-63), close and goto call it if the wrapper
\* has a page (65-74, 81-86)
BaWorkerStart(k) ==
    /\ ba.running[k] = NoItem /\ ba.queue # <<>>
    /\ LET d == Dequeue(ba.queue)
           on_engine == d.item.op = "launch" \/ d.item.w \in ba.page
       IN ba' = [ba EXCEPT
                   !.queue = d.rest,
                   !.running[k] = [d.item EXCEPT !.on_engine = on_engine],
                   !.engine = IF on_engine
                              THEN Append(@, [seq |-> d.item.seq, op |-> d.item.op,
                                              late |-> d.item.late])
                              ELSE @]
    /\ UNCHANGED baFrame

\* the work item returns or raises; the future is resolved
BaWorkerFinish(k, ok) ==
    /\ ba.running[k] # NoItem
    /\ LET item == ba.running[k]
       IN /\ (item.op = "goto" /\ ~ item.on_engine) => ~ ok
          /\ (item.op = "close" /\ ~ item.on_engine) => ok
          /\ ba' = [ba EXCEPT
                      !.running[k] = NoItem,
                      !.page = IF item.op = "launch" /\ ok THEN @ \cup {item.w}
                               ELSE IF item.op = "close" /\ ok THEN @ \ {item.w}
                               ELSE @,
                      !.task[item.t] = [pc |-> "resolved", op |-> item.op, ok |-> ok]]
    /\ UNCHANGED baFrame

\* the awaiting task goes on: after a close that returned,
\* self._browser = None and self._executor.shutdown(wait=False)
BaResume(t) ==
    /\ ba.task[t].pc = "resolved"
    /\ ba' = IF ba.task[t].op = "close" /\ ba.task[t].ok
             THEN [ba EXCEPT !.task[t].pc = "idle", !.browser = 0, !.shutdown = TRUE,
                             !.close_returned = TRUE]
             ELSE [ba EXCEPT !.task[t].pc = "idle"]
    /\ UNCHANGED baFrame

\* ------------------------------------------------------------------------
\* SessionManager called from several threads (services/session.py:47-118).
\* The class holds no lock; a step is what the interpreter runs without
\* letting another thread in: one read or write of _instance, one dict
\* operation, one step of a dict iterator.  Instances are numbered; 0 is
\* None.
\* ------------------------------------------------------------------------
Threads == {"a", "b"}
ManagerOps == {"create", "get", "stop_all", "list_active", "remove"}

\* 0 and the numbers of the sessions the threads can create
SmIds == 0..(MaxCallsPerThread * Cardinality(Threads))

SmThread0 == [pc |-> "idle", op |-> None, arg |-> 0, inst |-> 0, used |-> 0, left |-> {},
              calls |-> 0, error |-> None]

SmIdle == [instance |-> 0, ninst |-> 0, maps |-> <<>>, nsess |-> 0, home |-> <<>>,
           removed |-> {}, thread |-> [t \in Threads |-> SmThread0]]

smFrame == <<sessVars, gwVars, svcVars, agVars, request, px, rt, ex, reg, ts, cg, tp, lr, fc, ba, po, ck>>

\* get_session_manager() followed by a method call: the thread enters __new__
SmCall(t, op, id) ==
    /\ sm.thread[t].pc = "idle" /\ sm.thread[t].calls < MaxCallsPerThread
    /\ sm.thread[t].error = None
    /\ op = "remove" => id \in 1..sm.nsess
    /\ op # "remove" => id = 0
    /\ sm' = [sm EXCEPT !.thread[t] = [@ EXCEPT !.pc = "new_check", !.op = op, !.arg = id,
                                                !.calls = @ + 1]]
    /\ UNCHANGED smFrame

\* session.py:55  if cls._instance is None
SmNewCheck(t) ==
    /\ sm.thread[t].pc = "new_check"
    /\ sm' = [sm EXCEPT !.thread[t].pc = IF sm.instance = 0 THEN "new_assign" ELSE "new_return"]
    /\ UNCHANGED smFrame

\* session.py:56  cls._instance = super().__new__(cls)
SmNewAssign(t) ==
    /\ sm.thread[t].pc = "new_assign"
    /\ sm' = [sm EXCEPT !.ninst = @ + 1, !.instance = sm.ninst + 1,
                        !.maps = Append(@, {}), !.thread[t].pc = "new_init"]
    /\ UNCHANGED smFrame

\* session.py:57  cls._instance._sessions = {}
SmNewInit(t) ==
    /\ sm.thread[t].pc = "new_init"
    /\ sm' = [sm EXCEPT !.maps[sm.instance] = {}, !.thread[t].pc = "new_return"]
    /\ UNCHANGED smFrame

\* session.py:58  return cls._instance
SmNewReturn(t) ==
    /\ sm.thread[t].pc = "new_return"
    /\ sm' = [sm EXCEPT !.thread[t].pc = "method", !.thread[t].inst = sm.instance]
    /\ UNCHANGED smFrame

\* session.py:60-66  create_session: one dict store
SmCreate(t) ==
    /\ sm.thread[t].pc = "method" /\ sm.thread[t].op = "create"
    /\ sm' = [sm EXCEPT !.nsess = @ + 1,
                        !.maps[sm.thread[t].inst] = @ \cup {sm.nsess + 1},
                        !.home = Append(@, sm.thread[t].inst),
                        !.thread[t].pc = "idle"]
    /\ UNCHANGED smFrame

\* session.py:68-70  get_session: one dict lookup
SmGet(t) ==
    /\ sm.thread[t].pc = "method" /\ sm.thread[t].op = "get"
    /\ sm' = [sm EXCEPT !.thread[t].pc = "idle"]
    /\ UNCHANGED smFrame

\* session.py:83, 98-101  the iterator over the dict is created
SmIterBegin(t) ==
    /\ sm.thread[t].pc = "method" /\ sm.thread[t].op \in {"stop_all", "list_active"}
    /\ LET m == sm.maps[sm.thread[t].inst]
       IN sm' = [sm EXCEPT !.thread[t] =
                   [@ EXCEPT !.pc = "iter", !.used = Cardinality(m), !.left = m]]
    /\ UNCHANGED smFrame

\* one step of the dict iterator: it raises RuntimeError (dictionary changed
\* size during iteration) when the dict's size is not the one it started with
SmIterNext(t) ==
    /\ sm.thread[t].pc = "iter"
    /\ LET th == sm.thread[t]
       IN sm' = IF Cardinality(sm.maps[th.inst]) # th.used
                THEN [sm EXCEPT !.thread[t].pc = "idle", !.thread[t].error = "RuntimeError"]
                ELSE IF th.left = {}
                THEN [sm EXCEPT !.thread[t].pc = "idle"]
                ELSE [sm EXCEPT !.thread[t].left = @ \ {CHOOSE i \in th.left : TRUE}]
    /\ UNCHANGED smFrame

\* session.py:92  if session_id in self._sessions
SmRemoveCheck(t) ==
    /\ sm.thread[t].pc = "method" /\ sm.thread[t].op = "remove"
    /\ sm' = [sm EXCEPT !.thread[t].pc =
                IF sm.thread[t].arg \in sm.maps[sm.thread[t].inst] THEN "del" ELSE "idle"]
    /\ UNCHANGED smFrame

\* session.py:93  del self._sessions[session_id]
SmRemoveDel(t) ==
    /\ sm.thread[t].pc = "del"
    /\ LET th == sm.thread[t]
       IN sm' = IF th.arg \in sm.maps[th.inst]
                THEN [sm EXCEPT !.maps[th.inst] = @ \ {th.arg},
                                !.removed = @ \cup {th.arg},
                                !.thread[t].pc = "idle"]
                ELSE [sm EXCEPT !.thread[t].pc = "idle", !.thread[t].error = "KeyError"]
    /\ UNCHANGED smFrame

\* ------------------------------------------------------------------------
\* BrowserSessionPool (core/pool.py).  Client tasks and the cleanup task run
\* on one event loop: a task runs until it awaits something that suspends
\* (a browser launch, goto or close, a sleep, or a lock another task holds).
\* _session_lock is an asyncio.Lock: free and without waiters it is taken
\* without suspending, otherwise the caller queues and release hands the
\* lock to the first waiter.  _sessions is a dict, iterated in insertion
\* order; order lists its keys.  use_count is kept up to
\* max_uses_per_session, the only value it is compared with.
\* cleanup.passes is the parity of the number of cleanup passes run.
\* ------------------------------------------------------------------------
\* pool.py:47  PoolConfig.min_sessions
min_sessions == 1

Clients == {"c1", "c2"}
CleanupTask == "cleanup"
PoolIds == 1..(Cardinality(Clients) + min_sessions)

PoClient0 == [pc |-> "idle", session |-> 0, calls |-> 0, seen |-> 0, error |-> None]

PoIdle ==
    [started |-> FALSE, order |-> <<>>, in_use |-> {},
     use_count |-> [i \in PoolIds |-> 0], aged |-> {}, idled |-> {},
     lock |-> None, waiters |-> <<>>,
     client |-> [c \in Clients |-> PoClient0],
     cleanup |-> [pc |-> "none", to_remove |-> <<>>, available_count |-> 0,
                  need |-> 0, closing |-> 0, passes |-> 0]]

poFrame == <<sessVars, gwVars, svcVars, agVars, request, px, rt, ex, reg, ts, cg, tp, lr, fc, ba, sm, ck>>

\* the keys of _sessions
PoolKeys(p) == {p.order[i] : i \in DOMAIN p.order}

\* asyncio.Lock.acquire returns without suspending
LockFree(p) == p.lock = None /\ p.waiters = <<>>

\* asyncio.Lock.acquire of a held lock: the task queues
LockWait(p, t) == [p EXCEPT !.waiters = Append(@, t)]

\* asyncio.Lock.release: the first waiter gets the lock
Unlock(p) ==
    IF p.waiters # <<>>
    THEN [p EXCEPT !.lock = Head(p.waiters), !.waiters = Tail(@)]
    ELSE [p EXCEPT !.lock = None]

\* pool.py:30-33  PooledSession.touch
Touch(p, s) ==
    [p EXCEPT !.use_count[s] = IF @ < max_uses_per_session THEN @ + 1 ELSE @,
              !.idled = @ \ {s}]

\* pool.py:169-175  a new PooledSession is put into _sessions
PutSession(p) ==
    LET s == CHOOSE i \in PoolIds :
                 i \notin PoolKeys(p) /\ \A j \in PoolIds : j < i => j \in PoolKeys(p)
    IN [p EXCEPT !.order = Append(@, s), !.use_count[s] = 0,
                 !.aged = @ \ {s}, !.idled = @ \ {s}]

\* pool.py:210-214  should_recycle
ShouldRecycle(p, s) ==
    \/ s \in p.aged
    \/ s \in p.idled
    \/ p.use_count[s] >= max_uses_per_session

\* pool.py:254-272  _get_available_session under the lock, which c holds
GetAvailable(p, c) ==
    LET idle == SelectSeq(p.order, LAMBDA s : s \notin p.in_use)
        p0 == [p EXCEPT !.client[c].seen = Len(p.order)]
    IN IF idle # <<>>
       THEN Unlock(Touch([p0 EXCEPT !.in_use = @ \cup {Head(idle)},
                                    !.client[c].pc = "holding",
                                    !.client[c].session = Head(idle)],
                         Head(idle)))
       ELSE IF Len(p.order) < max_sessions
            THEN Unlock([p0 EXCEPT !.client[c].pc = "launching"])
            ELSE Unlock([p0 EXCEPT !.client[c].pc = "idle",
                                   !.client[c].error = "exhausted"])

\* pool.py:174-178, 276-278  the launched session is stored and taken
StoreAndTake(p, c) ==
    LET p1 == PutSession(p)
        s == p1.order[Len(p1.order)]
    IN Unlock(Touch([p1 EXCEPT !.in_use = @ \cup {s},
                               !.client[c].pc = "holding",
                               !.client[c].session = s],
                    s))

\* pool.py:282-290  release under the lock, up to the blank-page reset
ReleaseLocked(p, c) ==
    IF p.client[c].session \in PoolKeys(p)
    THEN [p EXCEPT !.in_use = @ \ {p.client[c].session}, !.client[c].pc = "resetting"]
    ELSE Unlock([p EXCEPT !.client[c].pc = "idle", !.client[c].session = 0])

\* pool.py:231-238  ensure minimum sessions exist
EnsureMinimum(p) ==
    IF Len(p.order) < min_sessions
    THEN [p EXCEPT !.cleanup.pc = "launching",
                   !.cleanup.need = min_sessions - Len(p.order)]
    ELSE [p EXCEPT !.cleanup.pc = "sleep"]

\* pool.py:224-229  the removal loop, from its top to the next await
RemoveLoop(p) ==
    IF p.cleanup.to_remove # <<>> /\ p.cleanup.available_count >= min_sessions
    THEN LET s == Head(p.cleanup.to_remove)
         IN [p EXCEPT !.order = SelectSeq(@, LAMBDA x : x # s),
                      !.cleanup.to_remove = Tail(@),
                      !.cleanup.closing = s,
                      !.cleanup.pc = "closing"]
    ELSE EnsureMinimum(Unlock([p EXCEPT !.cleanup.to_remove = <<>>]))

\* pool.py:202-221  the scan of _cleanup_stale_sessions under the lock
CleanupLocked(p) ==
    LET sessions_to_remove ==
            SelectSeq(p.order, LAMBDA s : s \notin p.in_use /\ ShouldRecycle(p, s))
        available_count ==
            Cardinality(PoolKeys(p) \ p.in_use) - Len(sessions_to_remove)
    IN RemoveLoop([p EXCEPT !.cleanup.to_remove = sessions_to_remove,
                            !.cleanup.available_count = available_count,
                            !.cleanup.passes = 1 - @])

\* pool.py:236-238  one replacement session is done (created or failed)
Replaced(p) ==
    IF p.cleanup.need > 1
    THEN [p EXCEPT !.cleanup.need = @ - 1, !.cleanup.pc = "launching"]
    ELSE [p EXCEPT !.cleanup.need = 0, !.cleanup.pc = "sleep"]

RECURSIVE Prewarm(_, _)
\* pool.py:119-123  n of the pre-warm launches succeed
Prewarm(p, n) == IF n = 0 THEN p ELSE Prewarm(PutSession(p), n - 1)

\* pool.py:110-129  start(): pre-warm, then the cleanup task is created
PoStart(n) ==
    /\ ~ po.started
    /\ po' = [Prewarm(po, n) EXCEPT !.started = TRUE, !.cleanup.pc = "sleep"]
    /\ UNCHANGED poFrame

\* pool.py:240-254  a client task calls acquire()
PoAcquire(c) ==
    /\ po.started
    /\ po.client[c].pc = "idle"
    /\ po.client[c].calls < MaxAcquires
    /\ LET p == [po EXCEPT !.client[c].calls = @ + 1, !.client[c].error = None]
       IN po' = IF LockFree(p) THEN GetAvailable([p EXCEPT !.lock = c], c)
                ELSE LockWait([p EXCEPT !.client[c].pc = "wait_get"], c)
    /\ UNCHANGED poFrame

\* pool.py:254  the waiting acquire gets the lock
PoGetLocked(c) ==
    /\ po.client[c].pc = "wait_get"
    /\ po.lock = c
    /\ po' = GetAvailable(po, c)
    /\ UNCHANGED poFrame

\* pool.py:167-178, 275-278  browser.launch() of the client's new session ends
PoLaunched(c, ok) ==
    /\ po.client[c].pc = "launching"
    /\ po' = IF ~ ok
             THEN [po EXCEPT !.client[c].pc = "idle", !.client[c].error = "launch"]
             ELSE IF LockFree(po) THEN StoreAndTake([po EXCEPT !.lock = c], c)
             ELSE LockWait([po EXCEPT !.client[c].pc = "wait_store"], c)
    /\ UNCHANGED poFrame

\* pool.py:174  the waiting _create_session gets the lock
PoStoreLocked(c) ==
    /\ po.client[c].pc = "wait_store"
    /\ po.lock = c
    /\ po' = StoreAndTake(po, c)
    /\ UNCHANGED poFrame

\* pool.py:280-290, 336-337  the client leaves the context: release(session)
PoRelease(c) ==
    /\ po.client[c].pc = "holding"
    /\ po' = IF LockFree(po) THEN ReleaseLocked([po EXCEPT !.lock = c], c)
             ELSE LockWait([po EXCEPT !.client[c].pc = "wait_release"], c)
    /\ UNCHANGED poFrame

\* pool.py:282  the waiting release gets the lock
PoReleaseLocked(c) ==
    /\ po.client[c].pc = "wait_release"
    /\ po.lock = c
    /\ po' = ReleaseLocked(po, c)
    /\ UNCHANGED poFrame

\* pool.py:288-294  the blank-page reset ends
PoReset(c, ok) ==
    /\ po.client[c].pc = "resetting"
    /\ LET s == po.client[c].session
           p == IF ok THEN po ELSE [po EXCEPT !.use_count[s] = max_uses_per_session]
       IN po' = Unlock([p EXCEPT !.client[c].pc = "idle", !.client[c].session = 0])
    /\ UNCHANGED poFrame

\* pool.py:191-202  the cleanup task's sleep ends
PoCleanup ==
    /\ po.cleanup.pc = "sleep"
    /\ po' = IF LockFree(po) THEN CleanupLocked([po EXCEPT !.lock = CleanupTask])
             ELSE LockWait([po EXCEPT !.cleanup.pc = "wait_scan"], CleanupTask)
    /\ UNCHANGED poFrame

\* pool.py:202  the waiting cleanup gets the lock
PoCleanupLocked ==
    /\ po.cleanup.pc = "wait_scan"
    /\ po.lock = CleanupTask
    /\ po' = CleanupLocked(po)
    /\ UNCHANGED poFrame

\* pool.py:180-187, 227  the close of a removed session ends (errors are logged)
PoClosed ==
    /\ po.cleanup.pc = "closing"
    /\ po' = RemoveLoop([po EXCEPT !.cleanup.closing = 0])
    /\ UNCHANGED poFrame

\* pool.py:167-175, 236-238  browser.launch() of a replacement session ends
PoReplacementLaunched(ok) ==
    /\ po.cleanup.pc = "launching"
    /\ po' = IF ~ ok THEN Replaced(po)
             ELSE IF LockFree(po) THEN Replaced(PutSession(po))
             ELSE LockWait([po EXCEPT !.cleanup.pc = "wait_store"], CleanupTask)
    /\ UNCHANGED poFrame

\* pool.py:174  the waiting replacement gets the lock
PoReplacementStored ==
    /\ po.cleanup.pc = "wait_store"
    /\ po.lock = CleanupTask
    /\ po' = Replaced(Unlock(PutSession(po)))
    /\ UNCHANGED poFrame

\* pool.py:35-37  time passes: the session is older than max_session_age
PoAges(s) ==
    /\ s \in PoolKeys(po)
    /\ s \notin po.aged
    /\ po' = [po EXCEPT !.aged = @ \cup {s}]
    /\ UNCHANGED poFrame

\* pool.py:39-41  time passes: last use is longer ago than max_idle_time
PoIdles(s) ==
    /\ s \in PoolKeys(po)
    /\ s \notin po.idled
    /\ po' = [po EXCEPT !.idled = @ \cup {s}]
    /\ UNCHANGED poFrame

\* ------------------------------------------------------------------------
\* The click tool from the executor to the page: ToolExecutor._click
\* (tools/executor.py:168-172), AsyncBrowserAdapter.click
\* (core/sync_browser.py:1123-1124) and SyncBrowserWrapper.click
\* (core/sync_browser.py:173-217).  A page says what each way of clicking
\* comes to; engine lists the calls made on the page.
\* ------------------------------------------------------------------------
\* the arguments of a click tool call: selector, and optionally button, force
ClickParams ==
    {[selector |-> "#x"]}
    \cup {[selector |-> "#x", button |-> b] : b \in {"left", "right", "middle"}}
    \cup {[selector |-> "#x", force |-> f] : f \in BOOLEAN}
    \cup {[selector |-> "#x", button |-> b, force |-> f] :
             b \in {"left", "right", "middle"}, f \in BOOLEAN}

ClickPages ==
    [plain : {"click", "intercepts", "raise"}, forced : {"click", "raise"},
     js_click : {"click", "raise"}, dispatch : {"click", "raise"}]

\* a page.click call
PageClick(selector, button, click_count, force) ==
    [op |-> "page.click", selector |-> selector, button |-> button,
     click_count |-> click_count, force |-> force]

CkIdle ==
    [pc |-> "idle", params |-> [selector |-> "#x"],
     page |-> [plain |-> "click", forced |-> "click", js_click |-> "click", dispatch |-> "click"],
     args |-> <<>>, engine |-> <<>>, success |-> FALSE, method |-> None]

ckFrame == <<sessVars, gwVars, svcVars, agVars, request, px, rt, ex, reg, ts, cg, tp, lr, fc, ba, sm, po>>

\* sync_browser.py:173-217  SyncBrowserWrapper.click
wrapper_click(c, selector, button, click_count, force) ==
    LET first == PageClick(selector, button, click_count, force)
        again == PageClick(selector, button, click_count, TRUE)
        outcome == IF force THEN c.page.forced ELSE c.page.plain
        e1 == <<first>>
        e2 == IF outcome = "intercepts" /\ ~ force THEN e1 \o <<again>> ELSE e1
        e3 == e2 \o <<[op |-> "evaluate(el.click)"]>>
        e4 == e3 \o <<[op |-> "dispatch_event"]>>
    IN IF outcome = "click"
       THEN [c EXCEPT !.pc = "returned", !.engine = e1, !.success = TRUE, !.method = "click"]
       ELSE IF outcome = "intercepts" /\ ~ force /\ c.page.forced = "click"
       THEN [c EXCEPT !.pc = "returned", !.engine = e2, !.success = TRUE, !.method = "force"]
       ELSE IF c.page.js_click = "click"
       THEN [c EXCEPT !.pc = "returned", !.engine = e3, !.success = TRUE, !.method = "js_click"]
       ELSE IF c.page.dispatch = "click"
       THEN [c EXCEPT !.pc = "returned", !.engine = e4, !.success = TRUE, !.method = "dispatch"]
       ELSE [c EXCEPT !.pc = "returned", !.engine = e4, !.success = FALSE, !.method = None]

\* executor.py:168-172  _click builds the adapter call from the parameters
CkHandler ==
    /\ ck.pc = "called"
    /\ ck' = [ck EXCEPT !.pc = "adapter",
                        !.args = [selector |-> ck.params["selector"],
                                  button |-> Get(ck.params, "button", "left")]]
    /\ UNCHANGED ckFrame

\* sync_browser.py:1123-1124  the adapter passes selector, button and
\* click_count (default 1) to the wrapper, whose force defaults to False
CkAdapterClick ==
    /\ ck.pc = "adapter"
    /\ ck' = wrapper_click(ck, ck.args.selector, ck.args.button, 1, FALSE)
    /\ UNCHANGED ckFrame

\* ------------------------------------------------------------------------
\* Initial states
\* ------------------------------------------------------------------------
Agent0 ==
    [pc |-> "init", step_count |-> 0, task_complete |-> FALSE, stuck_count |-> 0,
     last_tool_key |-> NoKey, messages |-> <<>>, history |-> <<>>,
     response |-> Resp(<<>>, <<>>), calls |-> <<>>, result_ok |-> FALSE,
     task_steps |-> <<>>, current_step_index |-> 0, browser |-> "none"]

AgentConfig(max_steps, boost, structured) ==
    [max_steps |-> max_steps, use_boost_prompt |-> boost,
     use_structured_execution |-> structured]

\* models/agent.py:11-30  LLMProvider, Language
Providers == {"gemini", "perplexity", "hf"}
Languages == {"typescript", "python", "javascript"}

\* AgentRequest with the API key resolved by run_agent (routes.py:129)
AgentRequest(api_key, provider, language, headless, boost, structured) ==
    [api_key |-> api_key, provider |-> provider, framework |-> "playwright",
     language |-> language, headless |-> headless, use_boost_prompt |-> boost,
     use_structured_execution |-> structured]

Request0 == AgentRequest("key", "gemini", "typescript", TRUE, FALSE, FALSE)

\* fields of AgentRequest (models/agent.py:42-102)
AgentRequestFields ==
    {"api_key", "provider", "url", "task", "framework", "language", "headless",
     "use_boost_prompt", "use_structured_execution", "verify_each_step"}
\* fields of the dataclass AgentConfig (agent.py:185-199)
AgentConfigFields ==
    {"max_steps", "timeout", "screenshot_on_step", "headless", "viewport_width",
     "viewport_height", "framework", "language", "use_boost_prompt", "temperature",
     "use_structured_execution", "verify_each_step"}
\* parameters of Agent.run (agent.py:385-389)
AgentRunParams == {"task", "url"}
\* keywords AgentService.run passes to AgentConfig (services/agent.py:79-90)
ServiceConfigKwargs ==
    {"max_steps", "headless", "screenshot_on_step", "framework", "language",
     "use_boost_prompt", "temperature", "use_structured_execution",
     "verify_each_step", "http_credentials"}
\* keywords AgentService.run passes to agent.run (services/agent.py:96)
ServiceRunKwargs == {"task", "url", "session"}

\* services/agent.py:70-96: what the construction of the agent does: reading
\* an attribute the request does not have raises AttributeError, a keyword
\* the callee does not take raises TypeError
Construct ==
    IF "url_username" \notin AgentRequestFields THEN "AttributeError"
    ELSE IF ~ (ServiceConfigKwargs \subseteq AgentConfigFields) THEN "TypeError"
    ELSE IF ~ (ServiceRunKwargs \subseteq AgentRunParams) THEN "RunTypeError"
    ELSE "ok"

\* the components around the chain at rest
CompIdle == px = PxIdle /\ rt = RtIdle /\ ex = ExIdle /\ reg = RegIdle /\ ts = TsIdle /\ cg = CgIdle /\ tp = TpIdle /\ lr = LrIdle /\ fc = FcIdle /\ ba = BaIdle /\ sm = SmIdle /\ po = PoIdle /\ ck = CkIdle

ChainInit(requests, configs, spc0) ==
    /\ request \in requests
    /\ sessions = [i \in {} |-> AgentSession]
    /\ stop_ret = None
    /\ sid = None
    /\ gpc = "idle"
    /\ stream = <<>>
    /\ spc = spc0
    /\ llm_closed = FALSE
    /\ config \in configs
    /\ agent = Agent0
    /\ produced = 0
    /\ obs = [same_run |-> 0, prev_key |-> NoKey, no_tool_run |-> 0]

InitChain(requests, configs, spc0) == ChainInit(requests, configs, spc0) /\ CompIdle

InitWith(configs) == InitChain({Request0}, configs, "init")

Init == InitWith({AgentConfig(MaxSteps, b, FALSE) : b \in BOOLEAN})

InitLong == InitWith({AgentConfig(MaxStepsLong, FALSE, FALSE)})

InitSeed == InitWith({AgentConfig(MaxStepsSeed, FALSE, FALSE)})

\* requests as run_agent hands them to AgentService.run; no agent exists yet
InitService ==
    InitChain({AgentRequest(k, p, l, h, b, st) :
                  k \in {None, "key"}, p \in Providers, l \in Languages,
                  h \in BOOLEAN, b \in BOOLEAN, st \in BOOLEAN},
              {None}, "new")

\* ------------------------------------------------------------------------
\* Gateway and service actions
\* ------------------------------------------------------------------------
\* run_agent (routes.py:132-139): create the session, hand the generator over
RunAgent ==
    /\ gpc = "idle"
    /\ sessions' = CreateSession(NewSessionId)
    /\ sid' = NewSessionId
    /\ gpc' = "created"
    /\ UNCHANGED <<stop_ret, stream, svcVars, agVars, compVars>>

\* event_generator that starts relaying without the session event
GwSession_Skipped ==
    /\ gpc = "created"
    /\ gpc' = "sent"
    /\ UNCHANGED <<sessVars, stream, svcVars, agVars, compVars>>

\* event_generator (routes.py:36-43): the session event
GwSession ==
    /\ gpc = "created"
    /\ stream' = Append(stream, Ev("session", sid, 0))
    /\ gpc' = "sent"
    /\ UNCHANGED <<sessVars, svcVars, agVars, compVars>>

\* services/agent.py:45-96, routes.py:64-73: first pull of AgentService.run,
\* up to the iteration over agent.run; nothing suspends in between
SvcConstruct ==
    /\ gpc = "sent" /\ spc = "new"
    /\ IF request.api_key = None
       THEN /\ stream' = Append(stream, Ev("error", "API key is required", 0))
            /\ spc' = "keyerr"
            /\ UNCHANGED <<gpc, config>>
       ELSE CASE Construct = "ok" ->
                   /\ config' = AgentConfig(30, request.use_boost_prompt,
                                            request.use_structured_execution)
                   /\ spc' = "init"
                   /\ UNCHANGED <<gpc, stream>>
              [] Construct = "RunTypeError" ->
                   \* inside the try block: the service reports it
                   /\ config' = AgentConfig(30, request.use_boost_prompt,
                                            request.use_structured_execution)
                   /\ stream' = Append(stream, Ev("error", "Agent execution error", 0))
                   /\ spc' = "errorsent"
                   /\ UNCHANGED gpc
              [] OTHER ->
                   \* outside the try block: the gateway reports it
                   /\ stream' = Append(stream, Ev("error", "Agent error", 0))
                   /\ spc' = "raised"
                   /\ gpc' = "sent_error"
                   /\ UNCHANGED config
    /\ UNCHANGED <<sessVars, llm_closed, agent, produced, obs, compVars>>

\* services/agent.py:49-55: the service returns after the API-key error
SvcReturn ==
    /\ gpc = "sent" /\ spc = "keyerr"
    /\ spc' = "done"
    /\ GwFinally
    /\ UNCHANGED <<stop_ret, sid, stream, llm_closed, agVars, compVars>>

\* routes.py:64-77: the gateway resumes after its own error event
GwAfterError ==
    /\ gpc = "sent_error"
    /\ GwFinally
    /\ UNCHANGED <<stop_ret, sid, stream, svcVars, agVars, compVars>>

\* first pull: AgentService.run up to the first event of Agent.run (agent.py:399)
SvcStart ==
    /\ gpc = "sent" /\ spc = "init"
    /\ Run(Y(agent, "y_start", Log("Starting agent")))
    /\ UNCHANGED obs

\* the service resumes after its error event (services/agent.py:116-122)
SvcAfterError ==
    /\ gpc = "sent" /\ spc = "errorsent"
    /\ spc' = "done"
    /\ llm_closed' = TRUE
    /\ GwFinally
    /\ UNCHANGED <<stop_ret, sid, stream, agVars, compVars>>

\* the gateway resumes after its stop event: break (routes.py:58, 74-77)
GwBreak ==
    /\ gpc = "sent_stop"
    /\ GwFinally
    /\ UNCHANGED <<stop_ret, sid, stream, svcVars, agVars, compVars>>

\* routes.py:77-78: the sleep ends, the session is removed
GwRemove ==
    /\ gpc = "sleep"
    /\ sessions' = RemoveSession(sid)
    /\ gpc' = "done"
    /\ UNCHANGED <<stop_ret, sid, stream, svcVars, agVars, compVars>>

\* the abandoned service generator is finalized: GeneratorExit at its yield,
\* its finally block closes the LLM client (services/agent.py:116-122)
FinalizeService ==
    /\ gpc \in {"sleep", "done"}
    /\ spc \in {"relay", "stoplog", "errorsent"}
    /\ spc' = "closed"
    /\ llm_closed' = TRUE
    /\ UNCHANGED <<sessVars, gwVars, agVars, compVars>>

\* the abandoned agent generator is finalized: GeneratorExit at its yield;
\* inside the try block the finally block awaits browser.close(), which
\* returns or raises (agent.py:702-704)
FinalizeAgent(ok) ==
    /\ spc = "closed"
    /\ agent.pc \in YieldPcs
    /\ agent' = [agent EXCEPT !.pc = "killed",
                              !.browser = IF agent.pc \in TryYields /\ @ # "none"
                                         THEN IF ok THEN "closed" ELSE "broken"
                                         ELSE @]
    /\ UNCHANGED <<sessVars, gwVars, svcVars, config, produced, obs, compVars>>

\* ------------------------------------------------------------------------
\* Agent actions
\* ------------------------------------------------------------------------
Pulled == gpc = "sent" /\ spc = "relay"
Awaiting(pc) == gpc = "waiting" /\ agent.pc = pc

\* agent.py:399-467  resumption after a yield of the set-up phase
AgentSetupStep ==
    /\ Pulled /\ agent.pc \in SetupYields
    /\ Run(Resume(agent))
    /\ UNCHANGED obs

\* agent.py:484-686  resumption after a yield inside the loop
AgentLoopStep ==
    /\ Pulled /\ agent.pc \in LoopYields
    /\ Run(Resume(agent))
    /\ UNCHANGED obs

\* agent.py:688-705  resumption after a yield of the final phase
AgentFinishStep ==
    /\ Pulled /\ agent.pc \in FinishYields
    /\ Run(Resume(agent))
    /\ UNCHANGED obs

\* agent.py:411-412, 700-701  browser.launch() returns or raises
LaunchReturn(ok) ==
    /\ Awaiting("w_launch")
    /\ Run(IF ok THEN Y([agent EXCEPT !.browser = "open"], "y_launched", Log("Browser launched"))
           ELSE Y(agent, "y_agenterr", AEv("error", "Agent error")))
    /\ UNCHANGED obs

\* agent.py:416-417, 700-701  browser.goto() returns or raises
GotoReturn(ok) ==
    /\ Awaiting("w_goto")
    /\ Run(IF ok THEN Y(agent, "y_loaded", Log("Page loaded"))
           ELSE Y(agent, "y_agenterr", AEv("error", "Agent error")))
    /\ UNCHANGED obs

\* agent.py:420-425  initial screenshot, failure swallowed
InitialScreenshotReturn(ok) ==
    /\ Awaiting("w_shot0")
    /\ Run(IF ok THEN Y(agent, "y_shot0", AEv("screenshot", ""))
           ELSE Prepare(agent))
    /\ UNCHANGED obs

\* agent.py:458-459  boost_prompt_with_llm returns (it never raises)
BoostReturn ==
    /\ Awaiting("w_boost")
    /\ Run(Y(agent, "y_boost", AEv("boosted_prompt", "")))
    /\ UNCHANGED obs

WithIds(calls, n) ==
    [i \in DOMAIN calls |-> [id |-> <<n, i>>, name |-> calls[i].name, args |-> calls[i].args]]

Observe(r) ==
    LET unique == Dedup(r.tool_calls, {})
    IN IF Len(unique) = 1
       THEN [same_run |-> IF ToolKey(unique[1]) = obs.prev_key THEN obs.same_run + 1 ELSE 1,
             prev_key |-> ToolKey(unique[1]),
             no_tool_run |-> 0]
       ELSE [same_run |-> 0, prev_key |-> NoKey,
             no_tool_run |-> IF r.tool_calls = <<>> THEN obs.no_tool_run + 1 ELSE 0]

\* agent.py:490-501  llm.chat returns a response
LLMReturn(r) ==
    /\ Awaiting("w_chat")
    /\ LET a == [agent EXCEPT !.response = Resp(r.content, WithIds(r.tool_calls, agent.step_count))]
       IN Run(IF r.content # <<>> THEN Y(a, "y_agent", Log("Agent:")) ELSE Process(a))
    /\ obs' = Observe(r)

\* agent.py:431-452  decompose_task returns the parsed plan ([] on an error)
DecompReturn(lines) ==
    /\ Awaiting("w_decomp")
    /\ LET a == [agent EXCEPT !.task_steps = parse_task_steps(lines)]
       IN Run(IF a.task_steps # <<>> THEN Y(a, "y_plan1", Log("Task decomposed"))
              ELSE Y(a, "y_noplan", Log("Could not decompose task")))
    /\ UNCHANGED obs

\* agent.py:495-497  llm.chat raises
LLMRaise ==
    /\ Awaiting("w_chat")
    /\ Run(Y(agent, "y_llmerr", AEv("error", "LLM error")))
    /\ obs' = [same_run |-> 0, prev_key |-> NoKey, no_tool_run |-> 0]

\* agent.py:554-572, 605-608  executor.execute returns (it never raises)
ExecuteReturn(ok) ==
    /\ Awaiting("w_exec")
    /\ LET a == [agent EXCEPT !.result_ok = ok]
       IN Run(IF ok THEN Y(a, "y_ok", Log("Result: Success"))
              ELSE Y(a, "y_fail", Log("Result: Failed")))
    /\ UNCHANGED obs

\* agent.py:597-604  browser.screenshot() returns or raises
ScreenshotReturn(ok) ==
    /\ Awaiting("w_shot")
    /\ Run(IF ok THEN Y(agent, "y_shot", AEv("screenshot", ""))
           ELSE Y(agent, "y_shotfail", Log("Screenshot failed")))
    /\ UNCHANGED obs

\* agent.py:686, 484  the sleep between steps ends
SleepReturn ==
    /\ Awaiting("w_sleep")
    /\ Run(WhileTop(agent))
    /\ UNCHANGED obs

\* agent.py:702-705  browser.close() returns or raises
CloseReturn(ok) ==
    /\ Awaiting("w_close")
    /\ Run(IF ok THEN Y([agent EXCEPT !.browser = "closed"], "y_closed", Log("Browser closed"))
           ELSE Raised([agent EXCEPT !.browser = "broken"]))
    /\ UNCHANGED obs

\* ------------------------------------------------------------------------
\* Specifications
\* ------------------------------------------------------------------------
Stop == \E id \in DOMAIN sessions : StopSession(id)

Next ==
    \/ RunAgent
    \/ GwSession
    \/ SvcStart
    \/ SvcAfterError
    \/ GwBreak
    \/ GwRemove
    \/ FinalizeService
    \/ \E ok \in BOOLEAN : FinalizeAgent(ok)
    \/ Stop
    \/ AgentSetupStep
    \/ AgentLoopStep
    \/ AgentFinishStep
    \/ \E ok \in BOOLEAN : LaunchReturn(ok)
    \/ \E ok \in BOOLEAN : GotoReturn(ok)
    \/ \E ok \in BOOLEAN : InitialScreenshotReturn(ok)
    \/ BoostReturn
    \/ \E r \in Responses : LLMReturn(r)
    \/ LLMRaise
    \/ \E ok \in BOOLEAN : ExecuteReturn(ok)
    \/ \E ok \in BOOLEAN : ScreenshotReturn(ok)
    \/ SleepReturn
    \/ \E ok \in BOOLEAN : CloseReturn(ok)

Spec == Init /\ [][Next]_vars

NextLong ==
    \/ RunAgent
    \/ GwSession
    \/ SvcStart
    \/ GwRemove
    \/ AgentSetupStep
    \/ AgentLoopStep
    \/ AgentFinishStep
    \/ LaunchReturn(TRUE)
    \/ GotoReturn(TRUE)
    \/ InitialScreenshotReturn(TRUE)
    \/ \E r \in LongResponses : LLMReturn(r)
    \/ LLMRaise
    \/ \E ok \in BOOLEAN : ExecuteReturn(ok)
    \/ SleepReturn
    \/ CloseReturn(TRUE)

SpecLong == InitLong /\ [][NextLong]_vars

\* runs of the click_text scenario: no stop request, the browser works
NextSeed ==
    \/ RunAgent
    \/ GwSession
    \/ SvcStart
    \/ GwRemove
    \/ AgentSetupStep
    \/ AgentLoopStep
    \/ AgentFinishStep
    \/ LaunchReturn(TRUE)
    \/ GotoReturn(TRUE)
    \/ InitialScreenshotReturn(TRUE)
    \/ \E r \in SeedResponses : LLMReturn(r)
    \/ \E ok \in BOOLEAN : ExecuteReturn(ok)
    \/ ScreenshotReturn(TRUE)
    \/ SleepReturn
    \/ CloseReturn(TRUE)

SpecSeed == InitSeed /\ [][NextSeed]_vars

\* a request from its arrival to the start of the agent loop
NextService ==
    \/ RunAgent
    \/ GwSession
    \/ SvcConstruct
    \/ SvcReturn
    \/ GwAfterError
    \/ GwRemove

SpecService == InitService /\ [][NextService]_vars

\* a chat call of the text-protocol client on each message list
InitPx ==
    /\ ChainInit({Request0}, {None}, "new")
    /\ rt = RtIdle
    /\ ex = ExIdle
    /\ reg = RegIdle
    /\ ck = CkIdle
    /\ po = PoIdle
    /\ sm = SmIdle
    /\ ba = BaIdle
    /\ fc = FcIdle
    /\ lr = LrIdle
    /\ tp = TpIdle
    /\ cg = CgIdle
    /\ ts = TsIdle
    /\ px \in {[pc |-> "called", messages |-> ms, tools |-> t, out |-> <<>>] :
                  ms \in PxInputs, t \in BOOLEAN}

NextPx ==
    \/ PxConvert
    \/ PxMerge
    \/ PxEnforce
    \/ PxTruncate
    \/ PxPost

SpecPx == InitPx /\ [][NextPx]_vars

\* a chat call on each of the three clients
InitRetry ==
    /\ ChainInit({Request0}, {None}, "new")
    /\ px = PxIdle
    /\ ex = ExIdle
    /\ reg = RegIdle
    /\ ck = CkIdle
    /\ po = PoIdle
    /\ sm = SmIdle
    /\ ba = BaIdle
    /\ fc = FcIdle
    /\ lr = LrIdle
    /\ tp = TpIdle
    /\ cg = CgIdle
    /\ ts = TsIdle
    /\ rt \in {[RtIdle EXCEPT !.pc = "calling", !.provider = p] : p \in Providers}

NextRetry ==
    \/ \E o \in Outcomes : RtRequest(o)
    \/ RtWake

SpecRetry == InitRetry /\ [][NextRetry]_vars

\* a call of execute for each tool name and parameters
InitExec ==
    /\ ChainInit({Request0}, {None}, "new")
    /\ px = PxIdle
    /\ rt = RtIdle
    /\ reg = RegIdle
    /\ ck = CkIdle
    /\ po = PoIdle
    /\ sm = SmIdle
    /\ ba = BaIdle
    /\ fc = FcIdle
    /\ lr = LrIdle
    /\ tp = TpIdle
    /\ cg = CgIdle
    /\ ts = TsIdle
    /\ ex \in {[ExIdle EXCEPT !.pc = "called", !.tool_name = n, !.parameters = p] :
                  n \in ToolNames, p \in Parameters}

NextExec ==
    \/ ExEnter
    \/ ExHandler
    \/ \E o \in BrowserOutcomes : ExBrowserReturn(o)

SpecExec == InitExec /\ [][NextExec]_vars

\* the registry calls in any order
InitRegistry == InitChain({Request0}, {None}, "new")

NextRegistry ==
    \/ \E id \in SessionIds : RegCreate(id)
    \/ \E id \in SessionIds : RegStop(id)
    \/ RegStopAll
    \/ \E id \in SessionIds : RegMarkCompleted(id)
    \/ \E id \in SessionIds : RegRemove(id)
    \/ RegCleanup

SpecRegistry == InitRegistry /\ [][NextRegistry]_vars

\* the transform on each history and start URL
InitSteps ==
    /\ ChainInit({Request0}, {None}, "new")
    /\ px = PxIdle
    /\ rt = RtIdle
    /\ ex = ExIdle
    /\ reg = RegIdle
    /\ ck = CkIdle
    /\ po = PoIdle
    /\ sm = SmIdle
    /\ ba = BaIdle
    /\ fc = FcIdle
    /\ lr = LrIdle
    /\ tp = TpIdle
    /\ cg = CgIdle
    /\ ts \in {[TsIdle EXCEPT !.pc = "called", !.url = u, !.history = h] :
                  u \in {"a", "b"}, h \in Histories}

NextSteps == TsTransform

SpecSteps == InitSteps /\ [][NextSteps]_vars

\* the generator on each step
InitCodegen ==
    /\ ChainInit({Request0}, {None}, "new")
    /\ px = PxIdle
    /\ rt = RtIdle
    /\ ex = ExIdle
    /\ reg = RegIdle
    /\ ck = CkIdle
    /\ po = PoIdle
    /\ sm = SmIdle
    /\ ba = BaIdle
    /\ fc = FcIdle
    /\ lr = LrIdle
    /\ tp = TpIdle
    /\ ts = TsIdle
    /\ cg \in {[CgIdle EXCEPT !.pc = "called", !.step = st] : st \in PlanSteps}

NextCodegen == CgStepToTypescript

SpecCodegen == InitCodegen /\ [][NextCodegen]_vars

\* runs with structured execution
InitPlan == InitWith({AgentConfig(MaxStepsPlan, FALSE, TRUE)})

NextPlan ==
    \/ RunAgent
    \/ GwSession
    \/ SvcStart
    \/ GwRemove
    \/ AgentSetupStep
    \/ AgentLoopStep
    \/ AgentFinishStep
    \/ LaunchReturn(TRUE)
    \/ GotoReturn(TRUE)
    \/ InitialScreenshotReturn(TRUE)
    \/ \E d \in Decompositions : DecompReturn(d)
    \/ \E r \in PlanResponses : LLMReturn(r)
    \/ \E ok \in BOOLEAN : ExecuteReturn(ok)
    \/ ScreenshotReturn(TRUE)
    \/ SleepReturn
    \/ CloseReturn(TRUE)

SpecPlan == InitPlan /\ [][NextPlan]_vars

InitParse ==
    /\ ChainInit({Request0}, {None}, "new")
    /\ px = PxIdle
    /\ rt = RtIdle
    /\ ex = ExIdle
    /\ reg = RegIdle
    /\ ck = CkIdle
    /\ po = PoIdle
    /\ sm = SmIdle
    /\ ba = BaIdle
    /\ fc = FcIdle
    /\ lr = LrIdle
    /\ ts = TsIdle
    /\ cg = CgIdle
    /\ tp \in {[TpIdle EXCEPT !.pc = "reply", !.reply = r] : r \in Replies}

NextParse ==
    \/ TpPerplexity
    \/ TpHuggingFace

SpecParse == InitParse /\ [][NextParse]_vars

InitResponse ==
    /\ ChainInit({Request0}, {None}, "new")
    /\ px = PxIdle
    /\ rt = RtIdle
    /\ ex = ExIdle
    /\ reg = RegIdle
    /\ ck = CkIdle
    /\ po = PoIdle
    /\ sm = SmIdle
    /\ ba = BaIdle
    /\ fc = FcIdle
    /\ ts = TsIdle
    /\ cg = CgIdle
    /\ tp = TpIdle
    /\ lr \in {[LrIdle EXCEPT !.pc = "received", !.client = "gemini", !.data = d] :
                  d \in GeminiData}
              \cup {[LrIdle EXCEPT !.pc = "received", !.client = "perplexity", !.data = d,
                                   !.has_tools = h] : d \in PerplexityData, h \in BOOLEAN}
              \cup {[LrIdle EXCEPT !.pc = "received", !.client = "huggingface", !.data = d,
                                   !.has_tools = h] : d \in HuggingFaceData, h \in BOOLEAN}

NextResponse ==
    \/ LrGemini
    \/ LrPerplexity
    \/ LrHuggingFace

SpecResponse == InitResponse /\ [][NextResponse]_vars

InitClick ==
    /\ ChainInit({Request0}, {None}, "new")
    /\ px = PxIdle
    /\ rt = RtIdle
    /\ ex = ExIdle
    /\ reg = RegIdle
    /\ ck = CkIdle
    /\ po = PoIdle
    /\ sm = SmIdle
    /\ ba = BaIdle
    /\ ts = TsIdle
    /\ cg = CgIdle
    /\ tp = TpIdle
    /\ lr = LrIdle
    /\ fc \in {[FcIdle EXCEPT !.pc = "called", !.page = p, !.scroll_first = s] :
                  p \in Pages, s \in BOOLEAN}

NextClick == FcFindAndClick

SpecClick == InitClick /\ [][NextClick]_vars

InitClickText ==
    /\ ChainInit({Request0}, {None}, "new")
    /\ px = PxIdle
    /\ rt = RtIdle
    /\ ex = ExIdle
    /\ reg = RegIdle
    /\ ck = CkIdle
    /\ po = PoIdle
    /\ sm = SmIdle
    /\ ba = BaIdle
    /\ ts = TsIdle
    /\ cg = CgIdle
    /\ tp = TpIdle
    /\ lr = LrIdle
    /\ fc \in {[FcIdle EXCEPT !.pc = "called_text", !.page = p] : p \in Pages}

NextClickText == FcClickText

SpecClickText == InitClickText /\ [][NextClickText]_vars

InitAdapter ==
    /\ ChainInit({Request0}, {None}, "new")
    /\ px = PxIdle
    /\ rt = RtIdle
    /\ ex = ExIdle
    /\ reg = RegIdle
    /\ ck = CkIdle
    /\ po = PoIdle
    /\ sm = SmIdle
    /\ ts = TsIdle
    /\ cg = CgIdle
    /\ tp = TpIdle
    /\ lr = LrIdle
    /\ fc = FcIdle
    /\ ba = BaIdle

NextAdapter ==
    \/ \E t \in Tasks : BaLaunch(t)
    \/ \E t \in Tasks : BaGoto(t)
    \/ \E t \in Tasks : BaClose(t)
    \/ \E k \in Workers : BaWorkerStart(k)
    \/ \E k \in Workers, ok \in BOOLEAN : BaWorkerFinish(k, ok)
    \/ \E t \in Tasks : BaResume(t)

SpecAdapter == InitAdapter /\ [][NextAdapter]_vars

InitManager ==
    /\ ChainInit({Request0}, {None}, "new")
    /\ px = PxIdle
    /\ rt = RtIdle
    /\ ex = ExIdle
    /\ reg = RegIdle
    /\ ck = CkIdle
    /\ po = PoIdle
    /\ ts = TsIdle
    /\ cg = CgIdle
    /\ tp = TpIdle
    /\ lr = LrIdle
    /\ fc = FcIdle
    /\ ba = BaIdle
    /\ sm = SmIdle

NextManager ==
    \/ \E t \in Threads, op \in ManagerOps, id \in SmIds : SmCall(t, op, id)
    \/ \E t \in Threads : SmNewCheck(t)
    \/ \E t \in Threads : SmNewAssign(t)
    \/ \E t \in Threads : SmNewInit(t)
    \/ \E t \in Threads : SmNewReturn(t)
    \/ \E t \in Threads : SmCreate(t)
    \/ \E t \in Threads : SmGet(t)
    \/ \E t \in Threads : SmIterBegin(t)
    \/ \E t \in Threads : SmIterNext(t)
    \/ \E t \in Threads : SmRemoveCheck(t)
    \/ \E t \in Threads : SmRemoveDel(t)

SpecManager == InitManager /\ [][NextManager]_vars

InitPool ==
    /\ ChainInit({Request0}, {None}, "new")
    /\ px = PxIdle
    /\ rt = RtIdle
    /\ ex = ExIdle
    /\ reg = RegIdle
    /\ ck = CkIdle
    /\ ts = TsIdle
    /\ cg = CgIdle
    /\ tp = TpIdle
    /\ lr = LrIdle
    /\ fc = FcIdle
    /\ ba = BaIdle
    /\ sm = SmIdle
    /\ po = PoIdle

NextPool ==
    \/ \E n \in 0..min_sessions : PoStart(n)
    \/ \E c \in Clients : PoAcquire(c)
    \/ \E c \in Clients : PoGetLocked(c)
    \/ \E c \in Clients, ok \in BOOLEAN : PoLaunched(c, ok)
    \/ \E c \in Clients : PoStoreLocked(c)
    \/ \E c \in Clients : PoRelease(c)
    \/ \E c \in Clients : PoReleaseLocked(c)
    \/ \E c \in Clients, ok \in BOOLEAN : PoReset(c, ok)
    \/ PoCleanup
    \/ PoCleanupLocked
    \/ PoClosed
    \/ \E ok \in BOOLEAN : PoReplacementLaunched(ok)
    \/ PoReplacementStored
    \/ \E s \in PoolIds : PoAges(s)
    \/ \E s \in PoolIds : PoIdles(s)

SpecPool == InitPool /\ [][NextPool]_vars

\* the event loop runs every task that is ready, the browser engine ends
\* every launch, goto and close, and the cleanup sleep ends; nothing makes a
\* client call acquire or leave its context
PoolFairness ==
    /\ WF_vars(PoCleanup)
    /\ WF_vars(PoCleanupLocked)
    /\ WF_vars(PoClosed)
    /\ WF_vars(\E ok \in BOOLEAN : PoReplacementLaunched(ok))
    /\ WF_vars(PoReplacementStored)
    /\ \A c \in Clients :
          /\ WF_vars(PoGetLocked(c))
          /\ WF_vars(\E ok \in BOOLEAN : PoLaunched(c, ok))
          /\ WF_vars(PoStoreLocked(c))
          /\ WF_vars(PoReleaseLocked(c))
          /\ WF_vars(\E ok \in BOOLEAN : PoReset(c, ok))

SpecPoolFair == SpecPool /\ PoolFairness

InitClickTool ==
    /\ ChainInit({Request0}, {None}, "new")
    /\ px = PxIdle
    /\ rt = RtIdle
    /\ ex = ExIdle
    /\ reg = RegIdle
    /\ ts = TsIdle
    /\ cg = CgIdle
    /\ tp = TpIdle
    /\ lr = LrIdle
    /\ fc = FcIdle
    /\ ba = BaIdle
    /\ sm = SmIdle
    /\ po = PoIdle
    /\ ck \in {[CkIdle EXCEPT !.pc = "called", !.params = p, !.page = g] :
                  p \in ClickParams, g \in ClickPages}

NextClickTool ==
    \/ CkHandler
    \/ CkAdapterClick

SpecClickTool == InitClickTool /\ [][NextClickTool]_vars

\* the steps the event loop and the consumer take on their own: everything
\* except new requests, stop requests and disconnects
Scheduled ==
    \/ GwSession
    \/ SvcStart
    \/ SvcAfterError
    \/ GwBreak
    \/ GwRemove
    \/ FinalizeService
    \/ \E ok \in BOOLEAN : FinalizeAgent(ok)
    \/ AgentSetupStep
    \/ AgentLoopStep
    \/ AgentFinishStep
    \/ \E ok \in BOOLEAN : LaunchReturn(ok)
    \/ \E ok \in BOOLEAN : GotoReturn(ok)
    \/ \E ok \in BOOLEAN : InitialScreenshotReturn(ok)
    \/ BoostReturn
    \/ \E r \in Responses : LLMReturn(r)
    \/ LLMRaise
    \/ \E ok \in BOOLEAN : ExecuteReturn(ok)
    \/ \E ok \in BOOLEAN : ScreenshotReturn(ok)
    \/ SleepReturn
    \/ \E ok \in BOOLEAN : CloseReturn(ok)

\* Spec with the scheduling the event loop gives: a ready task is run, every
\* awaited call returns, the consumer keeps reading while it is connected
SpecFair == Init /\ [][Next]_vars /\ WF_vars(Scheduled)

\* ------------------------------------------------------------------------
\* Properties
\* ------------------------------------------------------------------------
Last(q) == q[Len(q)]
NTerminal(q) == Cardinality({i \in DOMAIN q : IsTerminal(q[i])})
StreamEnded == gpc \in {"sleep", "done"}
Removed == gpc = "done"
LoopPcs == LoopYields \cup {"w_chat", "w_exec", "w_shot", "w_sleep"}

\* C1: every run streamed to a connected consumer carries exactly one
\* complete-or-error event once the stream has ended.
C1_ExactlyOneTerminal ==
    StreamEnded => NTerminal(stream) = 1

\* C2: when the session is removed from the registry, a browser adapter that
\* was created has had its close completed.
C2_ClosedBeforeRemoval ==
    (Removed /\ agent.browser # "none") => agent.browser \notin {"new", "open"}

\* C3: task_complete is set only on a reply without tool calls whose stripped,
\* upper-cased content is TASK_COMPLETE or starts with it and is shorter than
\* 50 characters, with a successful actionable step already in the history;
\* a rejected reply leaves task_complete false and goes on to the next
\* iteration; complete("Task completed successfully") needs task_complete.
C3_CompletionDiscipline ==
    [][/\ (agent'.task_complete /\ ~ agent.task_complete) =>
            LET r == agent'.response
                c == Upper(Strip(r.content))
            IN /\ r.tool_calls = <<>>
               /\ c = <<TC>> \/ (c # <<>> /\ c[1] = TC /\ CLen(c) < 50)
               /\ \E i \in DOMAIN agent.history :
                     /\ agent.history[i].tool_name \in
                            {"click", "fill", "submit", "press_key", "check", "select_option"}
                     /\ agent.history[i].error = None
       /\ (agent.pc \in {"y_tried", "y_rejected"} /\ agent'.pc # agent.pc) =>
            (~ agent'.task_complete /\ agent'.pc \in {"w_sleep", "killed"})
       /\ \A i \in DOMAIN stream' :
            (stream'[i].type = "complete" /\ stream'[i].msg = "Task completed successfully")
                => agent'.task_complete
      ]_vars

C3_Witness ==
    /\ stream # <<>>
    /\ \E i \in DOMAIN stream :
          stream[i].type = "complete" /\ stream[i].msg = "Task completed successfully"

\* C4: on the third consecutive turn with the same single tool call the loop
\* does not execute the call (it injects the corrective message instead).
C4_RepeatTriggersRecovery ==
    obs.same_run >= 3 =>
        agent.pc \notin {"y_tool", "y_exec", "w_exec", "y_ok", "y_fail", "y_shot",
                         "y_shotfail", "w_shot", "y_stepdone"}

StopInLoop ==
    /\ StopRequested
    /\ gpc \in {"sent", "waiting"} /\ spc = "relay"
    /\ agent.pc \in LoopPcs
\* the browser's close has run: it returned, or it raised (the one case the
\* claim's assumption that in-flight calls return leaves out)
CloseRan == agent.browser \in {"closed", "broken"}
StoppedCleanly ==
    /\ Removed
    /\ sid \notin DOMAIN sessions
    /\ CloseRan
    /\ Last(stream) = StopEvent
C6_NoWorkAfterStop ==
    [][((agent'.pc = "w_chat" /\ agent.pc # "w_chat")
          \/ (agent'.pc = "w_exec" /\ agent.pc # "w_exec"))
        => ~ StopRequested]_vars

\* C7: at the end of every turn and at every LLM call of the loop the history
\* is the system message plus at most 12 other messages.
C7_WindowAfterEveryTurn ==
    agent.pc \in {"w_sleep", "w_chat"} =>
        /\ agent.messages[1].role = "system"
        /\ Len(agent.messages) <= 13

\* C8: the stall error is emitted only when the last five replies in a row had
\* no tool calls, and after five such replies no further LLM call is made.
C8_StallExactlyAtFive ==
    /\ agent.pc = "y_stuck" => obs.no_tool_run >= StuckLimit
    /\ agent.pc = "w_chat" => obs.no_tool_run < StuckLimit

\* C9: the stream starts with the session event of the run's session, no
\* other session event follows, and the relayed agent events appear in the
\* order in which the loop produced them, none skipped.
C9_SessionFirstInOrder ==
    /\ produced > 0 => stream # <<>>
    /\ stream # <<>> => stream[1] = Ev("session", sid, 0)
    /\ \A i \in DOMAIN stream : i > 1 => stream[i].type # "session"
    /\ \A i, j \in DOMAIN stream :
          (i < j /\ stream[i].n > 0 /\ stream[j].n > 0) => stream[i].n < stream[j].n
    /\ \A i \in DOMAIN stream : stream[i].n > 0 => stream[i].n = i - 1

C9_Witness ==
    /\ Len(stream) >= 8
    /\ \E i \in DOMAIN stream : stream[i].type = "code"

\* C10: no event follows a complete or error event on the stream.
C10_TerminalIsLast ==
    \A i \in DOMAIN stream : IsTerminal(stream[i]) => i = Len(stream)

\* the second turn of the scenario has been processed: turn 1 was the call
\* click_text{text:"Login"} and succeeded, turn 2 is the reply TASK_COMPLETE
SeedSecondTurn ==
    /\ agent.step_count = 2
    /\ Len(agent.history) = 1
    /\ agent.history[1].tool_name = "click_text"
    /\ agent.history[1].tool_args = [text |-> "Login"]
    /\ agent.history[1].error = None
    /\ agent.response = Resp(C_tc, <<>>)
    /\ agent.pc \in {"y_marked", "y_tried", "y_rejected", "y_stuck", "w_sleep"}

\* C11: after a successful click_text{text:"Login"} on turn 1, the reply
\* TASK_COMPLETE on turn 2 completes the task, and a completed task ends with
\* the code event followed by complete("Task completed successfully").
C11_SeedClickTextCompletes ==
    /\ SeedSecondTurn => agent.task_complete
    /\ (agent.task_complete /\ agent.pc = "y_complete") =>
          /\ Len(stream) >= 2
          /\ stream[Len(stream) - 1].type = "code"
          /\ Last(stream).type = "complete"
          /\ Last(stream).msg = "Task completed successfully"

\* C12: with a resolved API key, once AgentService.run has been entered it
\* stands at the iteration over agent.run: the construction did not fail.
C12_ServiceStartsLoop ==
    (request.api_key # None /\ spc # "new") => spc = "init"

\* the messages after the system messages
PxConversation == SelectSeq(px.out, LAMBDA m : m.role # "system")

\* C13: the list the text-protocol client sends has, after the system
\* message, roles that begin with user, alternate user/assistant and end
\* with user.
C13_RolesAlternate ==
    (px.pc \in {"final", "posted"} /\ PxConversation # <<>>) =>
        LET c == PxConversation
        IN /\ c[1].role = "user"
           /\ c[Len(c)].role = "user"
           /\ \A i \in 1..(Len(c) - 1) : c[i + 1].role = OtherRole(c[i].role)

\* C14: the messages posted have a summed content length of at most
\* MAX_INPUT_TOKENS x 4 characters, and a system message given is kept.
C14_WithinBudget ==
    px.pc = "posted" =>
        /\ SumLen(px.out) <= MAX_INPUT_TOKENS * CHARS_PER_TOKEN
        /\ (\E i \in DOMAIN px.messages : px.messages[i].role = "system")
              => (px.out # <<>> /\ px.out[1].role = "system")

\* the outcome of the latest request of the chat call
RtLast == rt.requests[Len(rt.requests)]

Transient == {"timeout", "connect", "429", "500", "503"}
Permanent == {"400", "401", "403", "404"}

\* C15: in every client, a chat call failing with a timeout, a connection
\* error, 429 or 5xx is retried, with at most 3 attempts in total; a success
\* returns that response at once; after the last failed attempt the error is
\* raised to the caller.
C15_TransientRetried ==
    /\ Len(rt.requests) <= max_attempts
    /\ (rt.pc = "returned") => (RtLast = "200")
    /\ (rt.pc \in {"waiting", "raised"} /\ RtLast = "200") => FALSE
    /\ (rt.pc = "raised" /\ RtLast \in Transient) => (Len(rt.requests) = max_attempts)
    /\ (rt.pc = "waiting") => (Len(rt.requests) < max_attempts)

\* C16: in every client, a chat call answered with 400, 401, 403 or 404
\* makes exactly one request and raises the error at once.
C16_PermanentNotRetried ==
    (rt.requests # <<>> /\ rt.requests[1] \in Permanent) =>
        (rt.pc = "raised" /\ Len(rt.requests) = 1)

C18_StopRequestedMonotonic ==
    [][\A id \in DOMAIN sessions :
          (sessions[id].stop_requested /\ id \in DOMAIN sessions')
              => sessions'[id].stop_requested]_vars

\* a session that was asked to stop has since been marked completed
C18_Witness ==
    /\ reg.op = "mark_completed"
    /\ reg.arg \in DOMAIN sessions
    /\ sessions[reg.arg].stop_requested
    /\ ~sessions[reg.arg].is_running

\* C19: stop(id) returns true, sets stop_requested and fires the stop signal
\* exactly when a session with that id is in the registry and running; for
\* an unknown id, a removed session or a completed one it returns false
\* (HTTP 404) and changes the state of no session.
C19_StopExactlyWhenRunning ==
    [][\A id \in SessionIds :
          RegStop(id) =>
              IF id \in DOMAIN sessions /\ sessions[id].is_running
              THEN /\ stop_ret' = "True"
                   /\ StopStatus(stop_ret') = 200
                   /\ sessions'[id].stop_requested /\ sessions'[id].stop_event
                   /\ \A j \in DOMAIN sessions \ {id} : sessions'[j] = sessions[j]
              ELSE /\ stop_ret' = "False"
                   /\ StopStatus(stop_ret') = 404
                   /\ sessions' = sessions]_vars

\* stop was called on a completed session of the registry and returned false
C19_Witness ==
    /\ reg.op = "stop"
    /\ reg.arg \in DOMAIN sessions
    /\ ~sessions[reg.arg].is_running
    /\ ~sessions[reg.arg].stop_requested
    /\ stop_ret = "False"

\* C20: once the event stream of a run has ended, on any path, its session
\* is marked not running before anything else, so it is not listed as active
\* and a stop on it returns false; it is then eventually removed from the
\* registry.  No session stays in the registry forever, and the active list
\* holds only sessions that are in the registry and running.
C20_EndedThenRemoved ==
    /\ [](StreamEnded => (sid \notin get_active_sessions))
    /\ [](\A id \in get_active_sessions : id \in DOMAIN sessions /\ sessions[id].is_running)
    /\ [][(StreamEnded /\ StopSession(sid)) => stop_ret' = "False"]_vars
    /\ (StreamEnded ~> Removed)
    /\ ((sid # None) ~> (Removed /\ sid \notin DOMAIN sessions))

\* the stream has ended and the session is still in the registry, not running
C20_Witness ==
    /\ gpc = "sleep"
    /\ sid \in DOMAIN sessions
    /\ ~sessions[sid].is_running
    /\ sid \notin get_active_sessions
    /\ stop_ret = "False"

\* C21: the TestStep list of the transform has no two adjacent steps with the
\* same action:selector:value key, the initial navigate step and the step
\* after it included.
C21_NoAdjacentDuplicates ==
    ts.pc = "returned" =>
        \A i \in 1..(Len(ts.test_steps) - 1) :
            ActionKey(ts.test_steps[i]) # ActionKey(ts.test_steps[i + 1])

\* the TestStep a history entry stands for
DerivedStep(h) ==
    TestStep(tool_to_action(h.tool_name), StepSelector(h), StepValue(h))

RECURSIVE DerivedInOrder(_, _)
\* steps is made, in order, of steps derived from entries of history that
\* have no error and whose tool is not a non-actionable one
DerivedInOrder(steps, history) ==
    IF steps = <<>> THEN TRUE
    ELSE IF history = <<>> THEN FALSE
    ELSE LET h == Head(history)
         IN IF /\ h.error = None
               /\ h.tool_name \notin non_actionable_tools
               /\ DerivedStep(h) = Head(steps)
            THEN DerivedInOrder(Tail(steps), Tail(history))
            ELSE DerivedInOrder(steps, Tail(history))

\* C32: the TestStep list begins with (navigate, start URL), and the steps
\* after it derive, in history order, from history entries that have no
\* error and whose tool is not one of the non-actionable tools.
C32_StepsFromHistory ==
    ts.pc = "returned" =>
        /\ Len(ts.test_steps) >= 1
        /\ ts.test_steps[1] = TestStep("navigate", None, ts.url)
        /\ DerivedInOrder(Tail(ts.test_steps), ts.history)

C32_Witness ==
    /\ ts.pc = "returned"
    /\ Len(ts.test_steps) >= 2
    /\ \E i \in 1..Len(ts.history) : ts.history[i].error # None
    /\ \E i \in 1..Len(ts.history) : ts.history[i].tool_name \in non_actionable_tools

RECURSIVE PerformedSteps(_)
\* the steps derived from the history entries that succeeded with a tool of
\* the action table, in history order
PerformedSteps(history) ==
    IF history = <<>> THEN <<>>
    ELSE LET h == Head(history)
         IN IF /\ h.error = None
               /\ h.tool_name \notin non_actionable_tools
               /\ tool_to_action(h.tool_name) # None
            THEN <<DerivedStep(h)>> \o PerformedSteps(Tail(history))
            ELSE PerformedSteps(Tail(history))

RECURSIVE CollapseRuns(_)
\* steps with each run of equal consecutive keys reduced to its first step
CollapseRuns(steps) ==
    IF Len(steps) <= 1 THEN steps
    ELSE IF ActionKey(steps[1]) = ActionKey(steps[2])
         THEN CollapseRuns(Tail(steps))
         ELSE <<steps[1]>> \o CollapseRuns(Tail(steps))

\* C38: after the initial navigate step the TestStep list is the performed
\* actions in history order with only consecutive repetitions collapsed: an
\* action repeated after a different successful action appears once per
\* occurrence.
C38_RepeatsKept ==
    ts.pc = "returned" =>
        Tail(ts.test_steps) = CollapseRuns(PerformedSteps(ts.history))

\* C22: for a step with action "wait", a selector and expected "visible",
\* the TypeScript statement waits for that selector to become visible
\* (waitFor({ state: 'visible' })), not for a fixed timeout.
C22_WaitVisible ==
    (/\ cg.pc = "returned"
     /\ LowerAction(cg.step.action) = "wait"
     /\ cg.step.selector # NoneStr
     /\ cg.step.expected = <<"visible">>) =>
        cg.code = <<"await page.locator('">> \o Escape(cg.step.selector)
                      \o <<"').waitFor({ state: 'visible' });">>

\* the plan [fill #q "laptop"; click [type=submit]]
SeedPlan == <<TaskStep(1, "fill", "#q", "laptop"), TaskStep(2, "click", "[type=submit]", None)>>

\* the claim's matching rule for a tool call and a plan step
ClaimMatch(tc, step) ==
    /\ tc.name \in action_to_tools(step.action)
    /\ (step.action \in {"fill", "type"} /\ step.value # None) =>
          LET v == Lower(Get(tc.args, "value", Get(tc.args, "text", "")))
          IN StrIn(Lower(step.value), v) \/ StrIn(v, Lower(step.value))
    /\ tc.name = "click_text" =>
          LET t == Lower(Get(tc.args, "text", ""))
          IN StrIn(Lower(step.target), t) \/ StrIn(t, Lower(step.target))

\* both tools of the plan have succeeded, in order
SeedPlanDone ==
    /\ \A i \in DOMAIN agent.task_steps :
          [agent.task_steps[i] EXCEPT !.completed = FALSE] = SeedPlan[i]
    /\ Len(agent.task_steps) = Len(SeedPlan)
    /\ \E i, j \in DOMAIN agent.history :
          /\ i < j
          /\ agent.history[i].tool_name = "fill" /\ agent.history[i].error = None
          /\ agent.history[i].tool_args = K_fill.args
          /\ agent.history[j].tool_name = "click" /\ agent.history[j].error = None

\* C23: the step cursor advances by exactly one, with the current step
\* marked completed and the "Step completed" log emitted, when and only when
\* a tool call has succeeded and matches the current plan step; a failed or
\* non-matching call changes neither the cursor nor any step; with the plan
\* [fill #q "laptop"; click [type=submit]] and both tools succeeding the
\* cursor advances twice.
C23_CursorAdvancesOnMatch ==
    /\ [][LET i == agent.current_step_index
              matched == /\ agent.pc = "y_ok" /\ agent.result_ok
                         /\ i < Len(agent.task_steps)
                         /\ ClaimMatch(Head(agent.calls), agent.task_steps[i + 1])
          IN /\ (agent'.current_step_index # i) =>
                   /\ matched
                   /\ agent'.current_step_index = i + 1
                   /\ agent'.task_steps = [agent.task_steps EXCEPT ![i + 1].completed = TRUE]
                   /\ agent'.pc = "y_stepdone"
                   /\ Last(stream').msg = "Step completed"
             /\ (matched /\ agent'.pc # "y_ok") => agent'.current_step_index = i + 1
             /\ (agent'.current_step_index = i /\ agent.pc # "w_decomp") =>
                   agent'.task_steps = agent.task_steps]_vars
    /\ [](SeedPlanDone => agent.current_step_index = 2)

\* the cursor stands after both steps of the plan
C23_Witness ==
    /\ SeedPlanDone
    /\ agent.current_step_index = 2
    /\ agent.task_steps[1].completed /\ agent.task_steps[2].completed

\* the events of the given type and message sent so far
Sent(type, msg) == {i \in DOMAIN stream : stream[i].type = type /\ stream[i].msg = msg}

\* C24: the loop makes at most maxSteps LLM calls, and the final complete
\* event says "Task completed successfully" exactly when a completion was
\* accepted, "Agent stopped" exactly when the loop was ended early by an LLM
\* error or a stall (also on the last allowed turn), and "Reached maximum
\* steps" exactly when maxSteps turns ran with neither.
C24_ReasonMatchesExit ==
    /\ Cardinality(Sent("log", "--- Step")) <= config.max_steps
    /\ \A i \in DOMAIN stream :
          (stream[i].type = "complete" /\ stream[i] # StopEvent) =>
            LET accepted == Sent("log", "marked complete") # {}
                early == Sent("error", "LLM error") \cup Sent("error", "stuck") # {}
            IN /\ (stream[i].msg = "Task completed successfully") <=> accepted
               /\ (stream[i].msg = "Agent stopped") <=> early
               /\ (stream[i].msg = "Reached maximum steps") <=>
                     (~ accepted /\ ~ early
                      /\ Cardinality(Sent("log", "--- Step")) = config.max_steps)

\* C25: a failed tool call never ends the run: the failure is recorded as
\* the error of its AgentStep, the step is appended to the history, the
\* remaining tool calls of the turn are still started, and after the turn
\* the next LLM turn is requested unless max_steps is reached.
C25_FailureContinues ==
    [][(agent' # agent) =>
         /\ (agent.pc = "w_exec" /\ ~ agent'.result_ok) => agent'.pc = "y_fail"
         /\ agent.pc = "y_fail" =>
               LET tc == Head(agent.calls)
               IN /\ Len(agent'.history) = Len(agent.history) + 1
                  /\ SubSeq(agent'.history, 1, Len(agent.history)) = agent.history
                  /\ Last(agent'.history).error # None
                  /\ Last(agent'.history).tool_name = tc.name
                  /\ Last(agent'.history).tool_args = tc.args
                  /\ Last(agent'.history).step_number = agent.step_count
                  /\ IF Tail(agent.calls) # <<>>
                     THEN /\ agent'.pc = "y_tool"
                          /\ agent'.calls = Tail(agent.calls)
                     ELSE agent'.pc = "w_sleep"
         /\ (/\ agent.pc = "w_sleep" /\ agent.history # <<>>
             /\ Last(agent.history).error # None
             /\ Last(agent.history).step_number = agent.step_count) =>
               IF agent.step_count < config.max_steps
               THEN agent'.pc = "y_step" /\ agent'.step_count = agent.step_count + 1
               ELSE agent'.pc = "y_code"
         /\ agent.pc = "y_step" => agent'.pc = "w_chat"]_vars

\* the first call of a turn failed, the second call of that turn was
\* executed, and the next LLM turn has been requested
C25_Witness ==
    /\ Len(agent.history) >= 2
    /\ agent.history[1].error # None
    /\ agent.history[2].step_number = agent.history[1].step_number
    /\ agent.history[2].tool_name # agent.history[1].tool_name
    /\ agent.pc = "w_chat"
    /\ agent.step_count = agent.history[1].step_number + 1

\* C26: for a reply that contains TOOL_CALL: <name> followed by
\* ARGUMENTS: <JSON object>, the text-protocol parser returns a tool call
\* with that name and exactly the parsed object (nested objects, braces and
\* escaped quotes inside strings included), and the chat-template variant
\* returns the same calls.
C26_ParsesArguments ==
    (tp.pc = "parsed" /\ tp.reply.sample.valid) =>
        /\ \E i \in DOMAIN tp.tool_calls :
              tp.tool_calls[i] = TextCall(tp.reply.name, tp.reply.sample.value)
        /\ tp.parser = "huggingface" =>
              tp.tool_calls = px_extract_tool_calls(tp.reply.content)

FinishReasons == {"stop", "tool_calls", "length", "error"}

\* C27: every LLMResponse a client returns has finish_reason in
\* {stop, tool_calls, length, error}, and has finish_reason tool_calls
\* whenever its tool-call list is non-empty, whatever the provider reported.
C27_FinishReason ==
    lr.pc = "returned" =>
        /\ lr.response.finish_reason \in FinishReasons
        /\ lr.response.tool_calls # <<>> => lr.response.finish_reason = "tool_calls"

\* the strategies find_and_click tried, in the order of their first engine call
RECURSIVE Tried(_, _)
Tried(engine, acc) ==
    IF engine = <<>> THEN acc
    ELSE LET s == StrategyOf(Head(engine))
         IN Tried(Tail(engine),
                  IF s = None \/ (\E i \in DOMAIN acc : acc[i] = s) THEN acc ELSE Append(acc, s))

\* C28: find_and_click first dismisses overlays and then tries text match,
\* CSS selector, forced CSS selector and DOM text walk in that order; a
\* later strategy is tried whenever all earlier ones failed to click the
\* target; success names the first strategy that clicked it; success=false
\* is returned only when all four failed.
C28_StrategiesInOrder ==
    fc.pc = "returned" =>
        LET tried == Tried(fc.did.engine, <<>>)
        IN /\ fc.did.engine[1] = "dismiss_overlays"
           /\ tried = SubSeq(StrategyOrder, 1, Len(tried))
           /\ fc.did.clicked_by = None => tried = StrategyOrder
           /\ fc.did.result.success =>
                 /\ fc.did.clicked_by # None
                 /\ fc.did.result.strategy = fc.did.clicked_by
           /\ ~ fc.did.result.success => fc.did.clicked_by = None

\* C33: click_text returns success=true only if an element was actually
\* clicked, by the locator click or by the in-page scan; when the locator
\* click fails and the scan finds no matching element it returns
\* success=false.
C33_SuccessMeansClicked ==
    fc.pc = "returned_text" =>
        /\ fc.did.result.success => fc.did.clicked_by # None
        /\ (fc.page.text_locator = "raise" /\ fc.page.js_fallback = "false") =>
               ~ fc.did.result.success

\* the tool-result message at position i of msgs follows the assistant
\* message that issued its call, with only tool results of that turn between
ResultFollowsCall(msgs, i) ==
    \E j \in 1..(i - 1) :
        /\ msgs[j].role = "assistant"
        /\ msgs[i].ids \subseteq msgs[j].ids
        /\ \A k \in (j + 1)..(i - 1) :
              msgs[k].role = "tool" /\ msgs[k].ids \subseteq msgs[j].ids

\* C34: at every LLM call each tool-result message of the conversation is
\* preceded by the assistant message that issued its tool call, with only
\* tool-result messages of the same turn in between.
C34_ResultsFollowCalls ==
    agent.pc = "w_chat" =>
        \A i \in DOMAIN agent.messages :
            agent.messages[i].role = "tool" => ResultFollowsCall(agent.messages, i)

\* the step-progress messages of a conversation
ProgressMessages(msgs) == {i \in DOMAIN msgs : msgs[i].text = "progress"}

\* C37: in a structured run the step cursor stays between 0 and the number
\* of plan steps and never decreases, the steps marked completed are exactly
\* the steps before the cursor, and once the cursor equals the number of
\* steps no further step-progress message is appended.
C37_CursorInvariants ==
    /\ [](/\ agent.current_step_index \in 0..Len(agent.task_steps)
          /\ \A i \in DOMAIN agent.task_steps :
                agent.task_steps[i].completed <=> i <= agent.current_step_index)
    /\ [][/\ agent'.current_step_index >= agent.current_step_index
          /\ (agent.task_steps # <<>> /\ agent.current_step_index = Len(agent.task_steps)) =>
                Cardinality(ProgressMessages(agent'.messages))
                    <= Cardinality(ProgressMessages(agent.messages))]_vars

\* the plan is finished, a progress message was sent on the way, and a
\* further successful tool call has been recorded after the last step
C37_Witness ==
    /\ agent.task_steps # <<>>
    /\ agent.current_step_index = Len(agent.task_steps)
    /\ ProgressMessages(agent.messages) # {}
    /\ Len(agent.history) > Len(agent.task_steps)
    /\ Last(agent.history).error = None

C30_StopAllExactlyRunning ==
    [][RegStopAll =>
          LET running == {i \in DOMAIN sessions : sessions[i].is_running}
          IN /\ DOMAIN sessions' = DOMAIN sessions
             /\ \A i \in running :
                   sessions'[i].stop_requested /\ sessions'[i].stop_event
             /\ \A i \in DOMAIN sessions \ running : sessions'[i] = sessions[i]
             /\ reg'.ret = Cardinality(running)]_vars

\* stop_all has stopped two running sessions and left a completed one alone
C30_Witness ==
    /\ reg.op = "stop_all"
    /\ reg.ret = 2
    /\ Cardinality({i \in DOMAIN sessions :
                       sessions[i].is_running /\ sessions[i].stop_requested}) = 2
    /\ \E i \in DOMAIN sessions :
          ~ sessions[i].is_running /\ ~ sessions[i].stop_requested

\* C31: the session registry is thread-safe: there is exactly one registry
\* instance in the process, no created session is lost (a session that was
\* created and not removed is in the registry's map), and no call fails
\* because another call changes the map at the same time.
C31_ThreadSafe ==
    /\ sm.ninst <= 1
    /\ \A t \in Threads : sm.thread[t].inst \in {0, sm.instance}
    /\ \A i \in 1..sm.nsess :
          i \notin sm.removed => (sm.instance # 0 /\ i \in sm.maps[sm.instance])
    /\ \A t \in Threads : sm.thread[t].error = None

\* C35: for every interleaving of acquire, release and cleanup the pool
\* never holds more than max_sessions sessions, and an acquire that finds
\* max_sessions sessions, all in use, fails with the pool-exhausted error
\* instead of creating another session.
C35_PoolBound ==
    /\ Len(po.order) <= max_sessions
    /\ \A c \in Clients :
          /\ po.client[c].pc \in {"launching", "wait_store"} =>
                po.client[c].seen < max_sessions
          /\ po.client[c].error = "exhausted" => po.client[c].seen >= max_sessions

\* C36: an idle pooled session that is stale (by age, idle time, use count
\* or a failed reset on release) is eventually closed and removed by the
\* periodic cleanup (unless a client takes it first), also when the idle
\* sessions number min_sessions.
C36_StaleRecycled ==
    \A s \in PoolIds :
        (s \in PoolKeys(po) /\ s \notin po.in_use /\ ShouldRecycle(po, s))
            ~> (s \notin PoolKeys(po) \/ s \in po.in_use)

\* C39: every parameter declared for the click tool reaches the browser
\* operation: the first click on the page has the call's selector, its
\* button (left if not given) and its force (false if not given), so a call
\* with force=true is executed as a forced click.
C39_ClickParametersReachPage ==
    ck.pc = "returned" =>
        ck.engine[1] = PageClick(ck.params["selector"],
                                 Get(ck.params, "button", "left"),
                                 1,
                                 Get(ck.params, "force", FALSE))

====
